---- MODULE Spec2Model ----
(***************************************************************************)
(* Model of the conversational assessment engine of vocationify-backend:   *)
(*   - VocationalTestService / CleanAIService   (vocational_sessions)      *)
(*   - ConversationalSessionService             (test_sessions)            *)
(*   - GeminiAIService.executeWithRetry         (retry / backoff)          *)
(*   - generateConversationalResponse           (extraction / parsing)      *)
(*   - SessionService, RiasecService, CareerMatchingService                *)
(*   - AIServiceFactory                         (credentials)              *)
(* The specifications of the module: Spec (VocationalTestService),         *)
(* SpecConv (ConversationalSessionService), SpecRetry (executeWithRetry),  *)
(* SpecParse, SpecScore, SpecNorm, SpecMatch, SpecConfig, SpecRace         *)
(* (overlapping VocationalTestService calls), SpecPhase (phase and history *)
(* of a session), SpecVector (scores and recommendations of a session),    *)
(* SpecTurn (a turn on the provider's raw text), SpecTest (the             *)
(* structured test), SpecClassify (isRetryableError), SpecFactory          *)
(* (AIServiceFactory), SpecTop (getTopTypes), SpecSaves (overlapping       *)
(* saveResponse calls) and SpecQuestions (the served questions).           *)
(***************************************************************************)
EXTENDS Integers, Sequences, FiniteSets, TLC

VARIABLES
    \* ---- CleanAIService
    careers,        \* CleanAIService.careers: ids loaded from the careers store
    \* ---- vocational_sessions row (VocationalTestService)
    vs_phase,       \* current_phase, "none" before the row is inserted
    vs_history,     \* conversation_history
    vs_scores,      \* riasec_scores
    vs_recs,        \* recommendations (careerIds, in order)
    vs_rcStart,     \* metadata.realityCheckStartMessageCount, -1 when absent
    vs_ret,         \* what the last VocationalTestService call returned
    vs_turn,        \* inputs of the last VocationalTestService call
    \* ---- test_sessions row and side tables (ConversationalSessionService)
    ts_status,      \* status, "none" before the row is inserted
    ts_phase,       \* current_phase
    ts_history,     \* conversation_history
    ts_confidence,  \* confidence_level
    ts_scores,      \* session_riasec_scores row
    ts_results,     \* test_results row of the session
    ts_metadata,    \* metadata
    ts_ret,         \* what the last ConversationalSessionService call returned
    ts_turn,        \* inputs of the last ConversationalSessionService call
    \* ---- one executeWithRetry call (GeminiAIService)
    rt_pc,          \* position in executeWithRetry
    rt_attempt,     \* loop variable attempt
    rt_started,     \* number of times operation() has been invoked
    rt_inflight,    \* operation() invocations started and not yet settled
    rt_lastError,   \* lastError
    rt_sleeps,      \* delays waited so far, in order
    rt_outcome,     \* how the call settled
    rt_script,      \* what operation() does on its 1st, 2nd, ... invocation
    rt_fallback,    \* fallbackValue argument ("undefined" when not supplied)
    \* ---- one generateConversationalResponse call on a raw provider text
    pr_content,     \* the raw text of the provider's reply, as a token sequence
    pr_out,         \* how the call settled and the response it returned
    \* ---- session_riasec_scores row and responses (SessionService)
    ss_exists,      \* the session_riasec_scores row has been inserted
    ss_scores,      \* the six *_score columns, in quarters of a point
    ss_responses,   \* number of rows of the responses table for the session
    ss_inputs,      \* the saveResponse calls to come: value and weights of each
    ss_done,        \* which of them have updated the scores
    ss_ret,         \* the last saveResponse call: its input and how it settled
    \* ---- one RiasecService.normalizeScores call
    nz_scores,      \* the scores argument, in quarters of a point
    nz_out,         \* the value returned, once the call was made
    \* ---- one CareerMatchingService.getCareerRecommendations call
    cm_userScores,  \* the userScores argument, in quarters of a point
    cm_careers,     \* the rows of the careers table, in table order
    cm_call,        \* the limit and filters arguments, once the call was made
    cm_scored,      \* positions of the rows handed to calculateCompatibility
    cm_out,         \* the matches returned, in order
    \* ---- provider credentials and one call that needs them
    cf_env,         \* process.env: AI_PROVIDER and which API keys are set
    cf_attempts,    \* requests sent to a provider
    cf_out,         \* the call made and what reached its caller
    \* ---- concurrent calls of VocationalTestService on one session
    cc_row,         \* the vocational_sessions row
    cc_op,          \* the handler each call runs
    cc_pc,          \* position of each call
    cc_session,     \* the row each call read with getSession
    cc_result,      \* the row as each call's own writes make it
    \* ---- the phase of one vocational_sessions row over successive calls
    ph_row,         \* current_phase, conversation_history (the kind of each
                    \* message) and metadata.realityCheckStartMessageCount
    ph_ret,         \* the last call: the handler, its arguments, how it ended
    ph_entry,       \* length of the history when the phase last became
                    \* reality_check, -1 when it never did
    ph_turns,       \* user turns persisted since then
    ph_reached,     \* the phase has been complete since then
    \* ---- one session of the structured test and its controllers
    tq_status,      \* test_sessions.status, "none" before the row is inserted
    tq_dist,        \* number of rows of responses per question_category
    tq_ret,         \* the last request: the handler and what it answered
    \* ---- riasec_scores and recommendations of one vocational_sessions row
    sv_row,         \* whether the row exists, and the two columns
    sv_ret,         \* the last call: the handler, how it ended, and the
                    \* riasecScores and recommendations of its aiResponse
    \* ---- one GeminiAIService.isRetryableError call
    er_error,       \* the error object passed to the call
    er_out,         \* whether the call was made, and the value returned
    \* ---- AIServiceFactory
    af_env,         \* process.env: AI_PROVIDER and which API keys are set
    af_instances,   \* AIServiceFactory.instances: the providers constructed
    af_ret,         \* the last call of the factory and what it gave
    \* ---- RiasecService.getTopTypes / getRiasecCode on one score vector
    tt_scores,      \* the scores argument of the calls
    tt_out,         \* the last call and the value it returned
    \* ---- overlapping SessionService.saveResponse calls on one session
    sc_start,       \* the scores row before the calls, in quarters of a point
    sc_scores,      \* the scores row
    sc_responses,   \* number of rows of the responses table
    sc_input,       \* the response value and weights of each call
    sc_pc,          \* position of each call
    sc_current,     \* the scores row each call read
    \* ---- one session of the structured test answering the questions it is served
    qs_status,      \* test_sessions.status, "none" before the row is inserted
    qs_asked,       \* the questions the session has a response for
    qs_served,      \* the question served last and not answered yet
    qs_ret          \* the last request: the handler, should_continue and the question served

cleanVars == <<careers>>
vsVars == <<vs_phase, vs_history, vs_scores, vs_recs, vs_rcStart, vs_ret, vs_turn>>
tsVars == <<ts_status, ts_phase, ts_history, ts_confidence, ts_scores, ts_results,
            ts_metadata, ts_ret, ts_turn>>
rtVars == <<rt_pc, rt_attempt, rt_started, rt_inflight, rt_lastError, rt_sleeps,
            rt_outcome, rt_script, rt_fallback>>
prVars == <<pr_content, pr_out>>
coreVars == <<cleanVars, vsVars, tsVars, rtVars>>
ssVars == <<ss_exists, ss_scores, ss_responses, ss_inputs, ss_done, ss_ret>>
nzVars == <<nz_scores, nz_out>>
cmVars == <<cm_userScores, cm_careers, cm_call, cm_scored, cm_out>>
cfVars == <<cf_env, cf_attempts, cf_out>>
ccVars == <<cc_row, cc_op, cc_pc, cc_session, cc_result>>
phVars == <<ph_row, ph_ret, ph_entry, ph_turns, ph_reached>>
tqVars == <<tq_status, tq_dist, tq_ret>>
svVars == <<sv_row, sv_ret>>
erVars == <<er_error, er_out>>
afVars == <<af_env, af_instances, af_ret>>
ttVars == <<tt_scores, tt_out>>
scVars == <<sc_start, sc_scores, sc_responses, sc_input, sc_pc, sc_current>>
qsVars == <<qs_status, qs_asked, qs_served, qs_ret>>
extVars == <<phVars, tqVars, svVars, erVars, afVars, ttVars, scVars, qsVars>>
auxVars == <<prVars, ssVars, nzVars, cmVars, cfVars, ccVars, extVars>>
vars == <<coreVars, auxVars>>

\* what an action on one group of variables leaves alone
prOthers == <<coreVars, ssVars, nzVars, cmVars, cfVars, ccVars, extVars>>
ssOthers == <<coreVars, prVars, nzVars, cmVars, cfVars, ccVars, extVars>>
nzOthers == <<coreVars, prVars, ssVars, cmVars, cfVars, ccVars, extVars>>
cmOthers == <<coreVars, prVars, ssVars, nzVars, cfVars, ccVars, extVars>>
cfOthers == <<vsVars, tsVars, rtVars, prVars, ssVars, nzVars, cmVars, ccVars, extVars>>
ccOthers == <<coreVars, prVars, ssVars, nzVars, cmVars, cfVars, extVars>>
baseVars == <<prVars, ssVars, nzVars, cmVars, cfVars, ccVars>>
phOthers == <<coreVars, baseVars, tqVars, svVars, erVars, afVars, ttVars, scVars, qsVars>>
tqOthers == <<coreVars, baseVars, phVars, svVars, erVars, afVars, ttVars, scVars, qsVars>>
svOthers == <<vsVars, tsVars, rtVars, baseVars, phVars, tqVars, erVars, afVars, ttVars, scVars, qsVars>>
erOthers == <<coreVars, baseVars, phVars, tqVars, svVars, afVars, ttVars, scVars, qsVars>>
afOthers == <<coreVars, baseVars, phVars, tqVars, svVars, erVars, ttVars, scVars, qsVars>>
ttOthers == <<coreVars, baseVars, phVars, tqVars, svVars, erVars, afVars, scVars, qsVars>>
scOthers == <<coreVars, baseVars, phVars, tqVars, svVars, erVars, afVars, ttVars, qsVars>>
qsOthers == <<coreVars, baseVars, phVars, tqVars, svVars, erVars, afVars, ttVars, scVars>>

----------------------------------------------------------------------------
(* Bounds of the model *)

\* number of entries in the careers store; ids are 1..NumCareers
NumCareers == 1
\* longest careerSuggestions list a provider reply carries
MaxSuggestions == 2
\* longest conversation history a handler may produce
MaxHistory == 14
\* longest conversation history of a test_sessions row
MaxConvHistory == 5
\* most messages a history may hold that were appended outside processMessage
\* (the first reality-check question, the final reality-check message)
MaxAuxMessages == 1
\* largest jitter (Math.random() * 1000, in whole seconds) added to a backoff delay
MaxJitter == 1

\* ids of the rows of the careers store
Catalog == 1..NumCareers
\* ids a provider may propose: the catalog plus one fabricated id
ProposedIds == 1..(NumCareers + 1)

----------------------------------------------------------------------------
(* Generic helpers *)

\* Array.prototype.filter on a sequence
RECURSIVE FilterSeq(_, _)
FilterSeq(s, keep) ==
    IF s = <<>> THEN <<>>
    ELSE IF Head(s) \in keep THEN <<Head(s)>> \o FilterSeq(Tail(s), keep)
         ELSE FilterSeq(Tail(s), keep)

\* Array.prototype.slice(0, n)
SliceTo(s, n) == SubSeq(s, 1, IF Len(s) < n THEN Len(s) ELSE n)

\* the set of elements of a sequence
Range(s) == {s[i] : i \in DOMAIN s}

\* all sequences over S of length at most n
SeqsUpTo(S, n) == UNION {[1..k -> S] : k \in 0..n}

\* the strictly increasing sequences of integers among them
IncreasingSeqs(S, n) ==
    {q \in SeqsUpTo(S, n) : \A i \in 1..(Len(q) - 1) : q[i] < q[i + 1]}

----------------------------------------------------------------------------
(* Provider replies (the structured payload parsed from the provider's text) *)

\* values a reply may carry in its nextPhase field; "none" is a missing field,
\* "bogus" a string that is no phase name
DeclaredPhases == {"none", "greeting", "enhanced_exploration", "career_matching",
                   "reality_check", "final_results", "complete", "bogus"}
Intents == {"question", "completion_check"}

Letters == {"R", "I", "A", "S", "E", "C"}
Dims == {"realistic", "investigative", "artistic", "social", "enterprising",
         "conventional"}
LetterOf(d) == CASE d = "realistic" -> "R" [] d = "investigative" -> "I"
                 [] d = "artistic" -> "A" [] d = "social" -> "S"
                 [] d = "enterprising" -> "E" [] d = "conventional" -> "C"

\* a scores object; a letter the provider left out reads as 0 (scores.X || 0)
NoScores == [l \in Letters |-> 0]
FullScores == [l \in Letters |->
                 CASE l = "R" -> 20 [] l = "I" -> 85 [] l = "A" -> 40
                   [] l = "S" -> 70 [] l = "E" -> 45 [] l = "C" -> 75]
PartialScores == [l \in Letters |-> IF l = "I" THEN 60 ELSE 0]

SuggestionInputs ==
    {[present |-> FALSE, list |-> <<>>]} \cup
    {[present |-> TRUE, list |-> l] : l \in IncreasingSeqs(ProposedIds, MaxSuggestions)}
\* riasecAssessment of a reply: scores with the provider's confidence
ScoreInputs ==
    {[present |-> FALSE, scores |-> NoScores, confidence |-> 0],
     [present |-> TRUE, scores |-> FullScores, confidence |-> 80],
     [present |-> TRUE, scores |-> PartialScores, confidence |-> 0]}

\* the parsed payloads a provider may send for one call; the text of the message
\* is named after the request that asked for it, and the intent is varied where
\* the code reads it (a reply without nextPhase)
Replies(msg) ==
    {r \in [message : {msg}, intent : Intents, nextPhase : DeclaredPhases,
            careerSuggestions : SuggestionInputs, riasecAssessment : ScoreInputs] :
        r.intent = "completion_check" => r.nextPhase = "none"}

\* replies to a user message
AnswerReplies == Replies("answer")
\* replies to FORZAR_COMPLETAR_REALITY_CHECK and to COMPLETAR_REALITY_CHECK; the
\* callers read message, recommendations and scores of these and never nextPhase
ForcedReplies == {r \in Replies("forced_summary") : r.nextPhase = "complete"}
FinalReplies == {r \in Replies("final_summary") : r.nextPhase = "complete"}

----------------------------------------------------------------------------
(* OpenAIService.generateConversationalResponse: missing-phase recovery *)

OpenAIEnsureNextPhase(parsedResponse) ==
    IF parsedResponse.nextPhase = "none"
    THEN IF parsedResponse.intent = "completion_check"
         THEN [parsedResponse EXCEPT !.nextPhase = "final_results"]
         ELSE [parsedResponse EXCEPT !.nextPhase = "enhanced_exploration"]
    ELSE parsedResponse

----------------------------------------------------------------------------
(* CleanAIService *)

mapPhase(openAIPhase) ==
    CASE openAIPhase = "enhanced_exploration" -> "exploration"
      [] openAIPhase = "career_matching" -> "career_matching"
      [] openAIPhase = "reality_check" -> "reality_check"
      [] openAIPhase \in {"final_results", "complete"} -> "complete"
      [] OTHER -> "undefined"

\* a variant that stores only the dimensions the provider gave a score for
ScoresFromAssessment_OnlyGiven(scores) ==
    [d \in {x \in Dims : scores[LetterOf(x)] # 0} |-> scores[LetterOf(d)]]
ScoresFromAssessment(scores) == [d \in Dims |-> scores[LetterOf(d)]]
ZeroScores == [d \in Dims |-> 0]

\* parseAIResponse on the object returned by OpenAIService; cache is this.careers
parseAIResponse(parsed, cache) ==
    [message |-> parsed.message,
     nextPhase |-> mapPhase(parsed.nextPhase),
     recommendations |->
        IF parsed.careerSuggestions.present
        THEN [present |-> TRUE,
              list |-> FilterSeq(parsed.careerSuggestions.list, cache)]
        ELSE [present |-> FALSE, list |-> <<>>],
     riasecScores |->
        IF parsed.riasecAssessment.present
        THEN [present |-> TRUE,
              scores |-> ScoresFromAssessment(parsed.riasecAssessment.scores)]
        ELSE [present |-> FALSE, scores |-> ZeroScores]]

\* CleanAIService.processMessage when the provider call succeeds with this reply
CleanProcessMessage(reply, cache) ==
    parseAIResponse(OpenAIEnsureNextPhase(reply), cache)

\* loadCareers, started by the constructor, settles
LoadCareers ==
    /\ careers = {}
    /\ careers' = Catalog
    /\ UNCHANGED <<vsVars, tsVars, rtVars, auxVars>>

----------------------------------------------------------------------------
(* VocationalTestService *)

\* the reality-check message count at which processMessage forces completion
RealityCheckLimit == 12

VsPhases == {"exploration", "career_matching", "reality_check", "complete"}

Msg(role, content) == [role |-> role, content |-> content]

\* the record of a call: the operation, whether it returned normally, the
\* nextPhase of the provider's reply and whether completion was forced
NoTurn == [op |-> "none", ok |-> FALSE, declared |-> "none", forced |-> FALSE]

\* messages of a history appended by transitionToPhase or completeRealityCheck
AuxMessages(h) ==
    Cardinality({i \in DOMAIN h : h[i].content \in {"rc_question", "final_summary"}})
VsError == [ok |-> FALSE, message |-> "", phase |-> "none", recommendations |-> <<>>]

\* session.metadata?.realityCheckStartMessageCount || 0
RealityCheckStartCount == IF vs_rcStart = -1 THEN 0 ELSE vs_rcStart

\* startSession: insert the row, ask for the greeting, store it
startSession(aiOk) ==
    /\ vs_phase = "none"
    /\ vs_phase' = "exploration"
    /\ vs_scores' = ZeroScores
    /\ vs_recs' = <<>>
    /\ vs_rcStart' = -1
    /\ vs_history' = IF aiOk THEN <<Msg("assistant", "greeting")>> ELSE <<>>
    /\ vs_ret' = IF aiOk
                 THEN [ok |-> TRUE, message |-> "greeting", phase |-> "exploration",
                       recommendations |-> <<>>]
                 ELSE VsError
    /\ vs_turn' = [NoTurn EXCEPT !.op = "startSession", !.ok = aiOk]
    /\ UNCHANGED <<cleanVars, tsVars, rtVars, auxVars>>

\* the aiResponse object of processMessage after the auto-completion block
\* (lines 170-201); completion is the reply to FORZAR_COMPLETAR_REALITY_CHECK
ForcedCompletionApplies(aiResponse, finalLen) ==
    /\ vs_phase = "reality_check"
    /\ aiResponse.nextPhase \in {"undefined", "reality_check"}
    /\ finalLen - RealityCheckStartCount >= RealityCheckLimit

ApplyForcedCompletion(aiResponse, completionResponse) ==
    [message |-> completionResponse.message,
     nextPhase |-> "complete",
     recommendations |-> completionResponse.recommendations,
     riasecScores |-> IF completionResponse.riasecScores.present
                      THEN completionResponse.riasecScores
                      ELSE aiResponse.riasecScores]

processMessage(reply, aiOk, completionReply, completionOk) ==
    /\ vs_phase # "none"
    /\ Len(vs_history) + 2 <= MaxHistory
    /\ LET updatedHistory == Append(vs_history, Msg("user", "user_message"))
           first == CleanProcessMessage(reply, careers)
           finalHistory == Append(updatedHistory, Msg("assistant", first.message))
           forced == aiOk /\ ForcedCompletionApplies(first, Len(finalHistory))
           ok == aiOk /\ (forced => completionOk)
           aiResponse == IF forced
                         THEN ApplyForcedCompletion(first,
                                  CleanProcessMessage(completionReply, careers))
                         ELSE first
           thisTurn == [op |-> "processMessage", ok |-> ok,
                        declared |-> IF aiOk THEN reply.nextPhase ELSE "none",
                        forced |-> forced]
       IN  /\ vs_turn' = thisTurn
           /\ IF ok
              THEN /\ vs_history' = finalHistory
                   /\ vs_phase' = IF aiResponse.nextPhase # "undefined"
                                  THEN aiResponse.nextPhase ELSE vs_phase
                   /\ vs_recs' = IF aiResponse.recommendations.present
                                 THEN aiResponse.recommendations.list ELSE vs_recs
                   /\ vs_scores' = IF aiResponse.riasecScores.present
                                   THEN aiResponse.riasecScores.scores ELSE vs_scores
                   /\ vs_ret' = [ok |-> TRUE, message |-> aiResponse.message,
                                 phase |-> vs_phase',
                                 recommendations |-> aiResponse.recommendations.list]
              ELSE /\ UNCHANGED <<vs_history, vs_phase, vs_recs, vs_scores>>
                   /\ vs_ret' = VsError
    /\ UNCHANGED <<vs_rcStart, cleanVars, tsVars, rtVars, auxVars>>

\* transitionToPhase: the phase is written first; for reality_check the first
\* question is then requested and appended with the start count
transitionToPhase(targetPhase, aiOk) ==
    /\ vs_phase # "none"
    /\ targetPhase = "reality_check" =>
          /\ Len(vs_history) + 1 <= MaxHistory
          /\ AuxMessages(vs_history) < MaxAuxMessages
    /\ vs_phase' = targetPhase
    /\ vs_turn' = [NoTurn EXCEPT !.op = "transitionToPhase",
                     !.ok = (targetPhase = "reality_check" => aiOk)]
    /\ IF targetPhase = "reality_check" /\ aiOk
       THEN /\ vs_history' = Append(vs_history, Msg("assistant", "rc_question"))
            /\ vs_rcStart' = Len(vs_history)
       ELSE UNCHANGED <<vs_history, vs_rcStart>>
    /\ vs_ret' = IF targetPhase = "reality_check" /\ ~aiOk
                 THEN VsError
                 ELSE [ok |-> TRUE, message |-> "", phase |-> targetPhase,
                       recommendations |-> vs_recs]
    /\ UNCHANGED <<vs_scores, vs_recs, cleanVars, tsVars, rtVars, auxVars>>

\* completeRealityCheck: only from reality_check; asks for the final message
completeRealityCheck(reply, aiOk) ==
    /\ vs_phase # "none"
    /\ Len(vs_history) + 1 <= MaxHistory
    /\ AuxMessages(vs_history) < MaxAuxMessages
    /\ LET aiResponse == CleanProcessMessage(reply, careers)
           ok == vs_phase = "reality_check" /\ aiOk
       IN  /\ vs_turn' = [NoTurn EXCEPT !.op = "completeRealityCheck", !.ok = ok]
           /\ IF ok
              THEN /\ vs_phase' = "complete"
                   /\ vs_history' = Append(vs_history,
                                           Msg("assistant", aiResponse.message))
                   /\ vs_recs' = IF aiResponse.recommendations.present
                                 THEN aiResponse.recommendations.list ELSE vs_recs
                   /\ vs_scores' = IF aiResponse.riasecScores.present
                                   THEN aiResponse.riasecScores.scores ELSE vs_scores
                   /\ vs_ret' = [ok |-> TRUE, message |-> aiResponse.message,
                                 phase |-> "complete", recommendations |-> vs_recs']
              ELSE /\ UNCHANGED <<vs_phase, vs_history, vs_recs, vs_scores>>
                   /\ vs_ret' = VsError
    /\ UNCHANGED <<vs_rcStart, cleanVars, tsVars, rtVars, auxVars>>

----------------------------------------------------------------------------
(* GeminiAIService.generateConversationalResponse: missing-phase recovery *)

GeminiEnsureNextPhase(parsedResponse) ==
    IF parsedResponse.nextPhase = "none"
    THEN IF parsedResponse.intent = "completion_check"
         THEN [parsedResponse EXCEPT !.nextPhase = "final_results"]
         ELSE [parsedResponse EXCEPT !.nextPhase = "enhanced_exploration"]
    ELSE parsedResponse

----------------------------------------------------------------------------
(* ConversationalSessionService (provider: AIServiceFactory.getDefaultService) *)

\* CHECK constraint test_sessions_current_phase_check
TsPhaseCheck == {"greeting", "enhanced_exploration", "career_matching",
                 "reality_check", "final_results", "complete"}

\* the { R: 50, ... } default profile
FiftyScores == [l \in Letters |-> 50]
\* what assessRiasecFromConversation may return: an assessment, or its fallback
AssessmentInputs == {FullScores, FiftyScores}

NoResults == [exists |-> FALSE, career_recommendations |-> <<>>,
              final_riasec_profile |-> NoScores]
NoMetadata == [topCareerMatches |-> <<>>, finalResults |-> FALSE]
NoTsTurn == [op |-> "none", ok |-> FALSE, declared |-> "none", proposed |-> <<>>]
TsError == [ok |-> FALSE, message |-> "", nextPhase |-> "none",
            careerSuggestions |-> <<>>]

\* the ConversationResponse handed back to the caller
TsReturn(aiResponse) ==
    [ok |-> TRUE, message |-> aiResponse.message, nextPhase |-> aiResponse.nextPhase,
     careerSuggestions |-> aiResponse.careerSuggestions.list]

\* storeCareerMatchingResults: merge the top 3 suggestions into metadata
storeCareerMatchingResults(metadata, careerSuggestions) ==
    [metadata EXCEPT !.topCareerMatches = SliceTo(careerSuggestions, 3)]

\* prepareFinalResults: metadata is replaced by the final-results bookkeeping
prepareFinalResults(metadata) ==
    [topCareerMatches |-> <<>>, finalResults |-> TRUE]

\* handleEnhancedPhases: the metadata after the per-phase handling and the
\* unconditional storing of the reply's suggestions
handleEnhancedPhases(aiResponse, metadata) ==
    LET suggestions == aiResponse.careerSuggestions.list
        afterSwitch ==
            CASE aiResponse.nextPhase = "career_matching" /\ suggestions # <<>> ->
                    storeCareerMatchingResults(metadata, suggestions)
              [] aiResponse.nextPhase = "final_results" ->
                    prepareFinalResults(metadata)
              [] OTHER -> metadata
    IN  IF suggestions # <<>>
        THEN storeCareerMatchingResults(afterSwitch, suggestions)
        ELSE afterSwitch

\* createConversationalSession: insert the rows, ask for the greeting, store it
createConversationalSession(reply, aiOk) ==
    /\ ts_status = "none"
    /\ ts_status' = "in_progress"
    /\ ts_confidence' = 0
    /\ ts_scores' = NoScores
    /\ ts_results' = NoResults
    /\ ts_metadata' = NoMetadata
    /\ LET greeting == GeminiEnsureNextPhase(reply)
       IN  IF aiOk
           THEN /\ IF greeting.nextPhase \in TsPhaseCheck
                   THEN /\ ts_history' = <<Msg("assistant", greeting.message)>>
                        /\ ts_phase' = greeting.nextPhase
                   ELSE /\ ts_history' = <<>>
                        /\ ts_phase' = "greeting"
                /\ ts_ret' = TsReturn(greeting)
                /\ ts_turn' = [op |-> "createConversationalSession", ok |-> TRUE,
                               declared |-> reply.nextPhase,
                               proposed |-> reply.careerSuggestions.list]
           ELSE /\ ts_history' = <<>>
                /\ ts_phase' = "greeting"
                /\ ts_ret' = TsError
                /\ ts_turn' = [NoTsTurn EXCEPT !.op = "createConversationalSession"]
    /\ UNCHANGED <<cleanVars, vsVars, rtVars, auxVars>>

\* processUserMessage; finalRiasecScores is what the final assessment returns
\* when the reply declares complete
processUserMessage(reply, aiOk, finalRiasecScores) ==
    /\ ts_status # "none"
    /\ Len(ts_history) + 2 <= MaxConvHistory
    /\ IF ~aiOk
       THEN /\ ts_ret' = TsError
            /\ ts_turn' = [NoTsTurn EXCEPT !.op = "processUserMessage"]
            /\ UNCHANGED <<ts_status, ts_phase, ts_history, ts_confidence, ts_scores,
                           ts_results, ts_metadata>>
       ELSE
         LET aiResponse == GeminiEnsureNextPhase(reply)
             updatedHistory == ts_history \o <<Msg("user", "user_message"),
                                               Msg("assistant", aiResponse.message)>>
             assessment == aiResponse.riasecAssessment
             suggestions == aiResponse.careerSuggestions.list
             validCareerSuggestions == FilterSeq(suggestions, Catalog)
             incrementalScores == IF assessment.present THEN assessment.scores
                                  ELSE ts_scores
             allHallucinated == suggestions # <<>> /\ validCareerSuggestions = <<>>
             savedResults ==
                 IF suggestions # <<>>
                 THEN [exists |-> TRUE,
                       career_recommendations |-> validCareerSuggestions,
                       final_riasec_profile |-> IF assessment.present
                                                THEN assessment.scores
                                                ELSE FiftyScores]
                 ELSE ts_results
             complete == aiResponse.nextPhase = "complete"
             accepted == aiResponse.nextPhase \in TsPhaseCheck
         IN  /\ ts_ret' = TsReturn(aiResponse)
             /\ ts_turn' = [op |-> "processUserMessage", ok |-> TRUE,
                            declared |-> reply.nextPhase, proposed |-> suggestions]
             /\ IF allHallucinated
                THEN /\ ts_scores' = incrementalScores
                     /\ UNCHANGED <<ts_status, ts_phase, ts_history, ts_confidence,
                                    ts_results, ts_metadata>>
                ELSE /\ ts_metadata' = handleEnhancedPhases(aiResponse, ts_metadata)
                     /\ ts_scores' = IF complete THEN finalRiasecScores
                                     ELSE incrementalScores
                     /\ ts_results' =
                          IF complete /\ savedResults.exists
                          THEN [savedResults EXCEPT
                                   !.final_riasec_profile = finalRiasecScores]
                          ELSE savedResults
                     /\ IF accepted
                        THEN /\ ts_history' = updatedHistory
                             /\ ts_phase' = aiResponse.nextPhase
                             /\ ts_confidence' = IF assessment.confidence # 0
                                                 THEN assessment.confidence
                                                 ELSE ts_confidence
                             /\ ts_status' = IF complete THEN "completed"
                                             ELSE ts_status
                        ELSE UNCHANGED <<ts_history, ts_phase, ts_confidence,
                                         ts_status>>
    /\ UNCHANGED <<cleanVars, vsVars, rtVars, auxVars>>

----------------------------------------------------------------------------
(* GeminiAIService.executeWithRetry *)

\* default of the maxRetries parameter; no caller passes another value
MaxRetries == 3
\* default of the baseDelayMs parameter
BaseDelayMs == 1000

\* what one invocation of operation() does: it resolves, or rejects with an
\* error that has a status (0 when it has none) and a lower-cased message
\* holding some of the words isRetryableError looks for
Success == [kind |-> "success", status |-> 0, words |-> {}]
NoError == [kind |-> "none", status |-> 0, words |-> {}]
ErrorInputs ==
    {[kind |-> "error", status |-> 429, words |-> {}],
     [kind |-> "error", status |-> 503, words |-> {"overloaded"}],
     [kind |-> "error", status |-> 500, words |-> {}],
     [kind |-> "error", status |-> 0, words |-> {"timeout"}],
     [kind |-> "error", status |-> 400, words |-> {}],
     [kind |-> "error", status |-> 0, words |-> {}]}
Outcomes == {Success} \cup ErrorInputs

isRetryableError(error) ==
    LET isOverloaded == "overloaded" \in error.words \/ error.status = 503
        isRateLimit == "rate limit" \in error.words \/ error.status = 429
        isTimeout == "timeout" \in error.words \/ "ETIMEDOUT" \in error.words
        isNetworkError == "network" \in error.words \/ "ECONNRESET" \in error.words
        isInternalError == error.status \in {500, 502, 504}
    IN  isOverloaded \/ isRateLimit \/ isTimeout \/ isNetworkError \/ isInternalError

\* variants of the loop-leaving test: one attempt too few, no test of the
\* error, no test of the attempt number
ShouldBreak_OneEarly(isRetryable, attempt) ==
    ~isRetryable \/ attempt >= MaxRetries - 1
ShouldBreak_RetryAll(isRetryable, attempt) == attempt = MaxRetries
ShouldBreak_NoLastTest(isRetryable, attempt) == ~isRetryable

\* the test that leaves the retry loop after a failed attempt
ShouldBreak(isRetryable, attempt) == ~isRetryable \/ attempt = MaxRetries

\* variant that keeps the first error
NextLastError_KeepFirst(lastError, error) ==
    IF lastError = NoError THEN error ELSE lastError

\* lastError after an attempt has failed with error
NextLastError(lastError, error) == error

RECURSIVE Pow2(_)
Pow2(n) == IF n = 0 THEN 1 ELSE 2 * Pow2(n - 1)

\* baseDelayMs * Math.pow(2, attempt - 1) + Math.random() * 1000
BackoffDelay(attempt, jitter) == BaseDelayMs * Pow2(attempt - 1) + jitter

Pending == [kind |-> "pending", attempt |-> 0, error |-> NoError]

\* what the n-th invocation of operation() does
OperationOutcome(n) == IF n \in DOMAIN rt_script THEN rt_script[n] ELSE Success

\* a caller enters executeWithRetry: lastError = null, attempt = 1
CallExecuteWithRetry ==
    /\ rt_pc = "idle"
    /\ rt_pc' = "loop"
    /\ rt_attempt' = 1
    /\ rt_lastError' = NoError
    /\ UNCHANGED <<rt_started, rt_inflight, rt_sleeps, rt_outcome, rt_script,
                   rt_fallback, cleanVars, vsVars, tsVars, auxVars>>

\* in the loop body: operation() is invoked and awaited
StartAttempt ==
    /\ rt_pc = "loop"
    /\ rt_pc' = "awaiting"
    /\ rt_started' = rt_started + 1
    /\ rt_inflight' = rt_inflight + 1
    /\ UNCHANGED <<rt_attempt, rt_lastError, rt_sleeps, rt_outcome, rt_script,
                   rt_fallback, cleanVars, vsVars, tsVars, auxVars>>

\* the awaited operation() resolves: its value is returned
AttemptSucceeds ==
    /\ rt_pc = "awaiting"
    /\ OperationOutcome(rt_started) = Success
    /\ rt_inflight' = rt_inflight - 1
    /\ rt_pc' = "returned"
    /\ rt_outcome' = [kind |-> "result", attempt |-> rt_started, error |-> NoError]
    /\ UNCHANGED <<rt_attempt, rt_started, rt_lastError, rt_sleeps, rt_script,
                   rt_fallback, cleanVars, vsVars, tsVars, auxVars>>

\* the awaited operation() rejects: the catch block records the error and either
\* leaves the loop or starts the backoff sleep
AttemptFails ==
    /\ rt_pc = "awaiting"
    /\ OperationOutcome(rt_started) # Success
    /\ rt_inflight' = rt_inflight - 1
    /\ rt_lastError' = NextLastError(rt_lastError, OperationOutcome(rt_started))
    /\ rt_pc' = IF ShouldBreak(isRetryableError(OperationOutcome(rt_started)),
                               rt_attempt)
                THEN "exhausted" ELSE "sleeping"
    /\ UNCHANGED <<rt_attempt, rt_started, rt_sleeps, rt_outcome, rt_script,
                   rt_fallback, cleanVars, vsVars, tsVars, auxVars>>

\* the backoff sleep ends; the loop increments attempt and tests it
SleepElapses(jitter) ==
    /\ rt_pc = "sleeping"
    /\ rt_sleeps' = Append(rt_sleeps, BackoffDelay(rt_attempt, jitter))
    /\ rt_attempt' = rt_attempt + 1
    /\ rt_pc' = IF rt_attempt + 1 <= MaxRetries THEN "loop" ELSE "exhausted"
    /\ UNCHANGED <<rt_started, rt_inflight, rt_lastError, rt_outcome, rt_script,
                   rt_fallback, cleanVars, vsVars, tsVars, auxVars>>

\* after the loop: the fallback value is returned when one was supplied
ReturnFallback ==
    /\ rt_pc = "exhausted"
    /\ rt_fallback # "undefined"
    /\ rt_pc' = "returned"
    /\ rt_outcome' = [kind |-> "fallback", attempt |-> 0, error |-> NoError]
    /\ UNCHANGED <<rt_attempt, rt_started, rt_inflight, rt_lastError, rt_sleeps,
                   rt_script, rt_fallback, cleanVars, vsVars, tsVars, auxVars>>

\* after the loop, without a fallback value: lastError is thrown
ThrowLastError ==
    /\ rt_pc = "exhausted"
    /\ rt_fallback = "undefined"
    /\ rt_pc' = "thrown"
    /\ rt_outcome' = [kind |-> "thrown", attempt |-> 0, error |-> rt_lastError]
    /\ UNCHANGED <<rt_attempt, rt_started, rt_inflight, rt_lastError, rt_sleeps,
                   rt_script, rt_fallback, cleanVars, vsVars, tsVars, auxVars>>

----------------------------------------------------------------------------
(* Extraction and parsing of the provider's raw text                        *)
(* (GeminiAIService / OpenAIService.generateConversationalResponse)          *)

\* The raw text is a sequence of tokens:
\*   "{"  "}"  ","          the structural characters
\*   "message"              the member "message":"hola"
\*   "nextPhase"            the member "nextPhase":"career_matching"
\*   "nextPhase_cut"        the text "nextPhase":"career_match  (string cut off)
\*   "intent"               the member "intent":"completion_check"
\*   "careerSuggestions"    the member "careerSuggestions":[]
\*   "key"                  the text "riasecAssessment":  (an object follows)
\*   "text"                 prose without braces or commas
Tokens == {"{", "}", ",", "message", "nextPhase", "nextPhase_cut", "intent",
           "careerSuggestions", "key", "text"}

\* String.prototype.indexOf / lastIndexOf of a token, 0 when absent
FirstIndexOf(s, t) ==
    IF \E i \in DOMAIN s : s[i] = t
    THEN CHOOSE i \in DOMAIN s : s[i] = t /\ \A j \in 1..(i - 1) : s[j] # t
    ELSE 0
LastIndexOf(s, t) ==
    IF \E i \in DOMAIN s : s[i] = t
    THEN CHOOSE i \in DOMAIN s : s[i] = t /\ \A j \in (i + 1)..Len(s) : s[j] # t
    ELSE 0

\* a variant that matches from the first "{" to the end of the text
RegexMatch_ToEnd(content) ==
    LET first == FirstIndexOf(content, "{")
    IN IF first # 0 /\ first < Len(content)
       THEN SubSeq(content, first, Len(content)) ELSE <<>>
\* content.match(/\{[\s\S]*\}/): the greedy match runs from the first "{" to
\* the last "}" after it; <<>> stands for null (no match)
RegexMatch(content) ==
    LET first == FirstIndexOf(content, "{")
        last == LastIndexOf(content, "}")
    IN IF first # 0 /\ last > first THEN SubSeq(content, first, last) ELSE <<>>

\* jsonText.trim().endsWith('}')
EndsWithBrace(jsonText) == jsonText # <<>> /\ jsonText[Len(jsonText)] = "}"

\* jsonText.includes('"nextPhase"') / includes('"careerSuggestions"')
IncludesNextPhase(jsonText) ==
    \E i \in DOMAIN jsonText : jsonText[i] \in {"nextPhase", "nextPhase_cut"}
IncludesCareerSuggestions(jsonText) ==
    \E i \in DOMAIN jsonText : jsonText[i] = "careerSuggestions"

\* the repair of a text that does not end with "}"
RepairTruncated(jsonText) ==
    LET lastComma == LastIndexOf(jsonText, ",")
    IN IF IncludesCareerSuggestions(jsonText) /\ ~IncludesNextPhase(jsonText)
       THEN IF lastComma > 1
            THEN SubSeq(jsonText, 1, lastComma - 1) \o <<",", "nextPhase_complete", "}">>
            ELSE SubSeq(jsonText, 1, LastIndexOf(jsonText, "}") - 1)
                    \o <<",", "nextPhase_complete", "}">>
       ELSE IF lastComma > 1
            THEN SubSeq(jsonText, 1, lastComma - 1) \o <<"}">>
            ELSE jsonText

\* JSON grammar over the tokens: the position after the object / members /
\* member starting at position i, 0 when there is none
RECURSIVE ParseObject(_, _), ParseMembers(_, _), ParseMember(_, _)
ParseObject(s, i) ==
    IF i > Len(s) \/ s[i] # "{" THEN 0
    ELSE IF i + 1 <= Len(s) /\ s[i + 1] = "}" THEN i + 2
    ELSE LET j == ParseMembers(s, i + 1)
         IN IF j = 0 \/ j > Len(s) \/ s[j] # "}" THEN 0 ELSE j + 1
ParseMembers(s, i) ==
    LET j == ParseMember(s, i)
    IN IF j = 0 THEN 0
       ELSE IF j <= Len(s) /\ s[j] = "," THEN ParseMembers(s, j + 1)
       ELSE j
ParseMember(s, i) ==
    IF i > Len(s) THEN 0
    ELSE IF s[i] \in {"message", "nextPhase", "nextPhase_complete", "intent",
                      "careerSuggestions"} THEN i + 1
    ELSE IF s[i] = "key" THEN ParseObject(s, i + 1)
    ELSE 0

\* JSON.parse accepts the text
IsValidJson(jsonText) == ParseObject(jsonText, 1) = Len(jsonText) + 1

\* nesting depth of position i: 1 for the members of the outer object
Depth(s, i) ==
    Cardinality({j \in 1..(i - 1) : s[j] = "{"})
        - Cardinality({j \in 1..(i - 1) : s[j] = "}"})
HasMember(s, t) == \E i \in DOMAIN s : s[i] = t /\ Depth(s, i) = 1

\* the object JSON.parse returns for a valid text
JsonParse(jsonText) ==
    [message |-> IF HasMember(jsonText, "message") THEN "hola" ELSE "undefined",
     intent |-> IF HasMember(jsonText, "intent") THEN "completion_check"
                ELSE "undefined",
     nextPhase |-> IF HasMember(jsonText, "nextPhase_complete")
                      /\ (~HasMember(jsonText, "nextPhase")
                          \/ LastIndexOf(jsonText, "nextPhase")
                               < LastIndexOf(jsonText, "nextPhase_complete"))
                   THEN "complete"
                   ELSE IF HasMember(jsonText, "nextPhase") THEN "career_matching"
                   ELSE "none",
     hasCareerSuggestions |-> HasMember(jsonText, "careerSuggestions")]

\* GeminiAIService.getFallbackResponse
getFallbackResponse ==
    [message |-> "fallback", intent |-> "question",
     nextPhase |-> "enhanced_exploration", hasCareerSuggestions |-> FALSE,
     riasecAssessment |-> [present |-> TRUE, scores |-> [l \in Letters |-> 50],
                           confidence |-> 20]]

NoResponse ==
    [message |-> "undefined", intent |-> "undefined", nextPhase |-> "none",
     hasCareerSuggestions |-> FALSE]
PrPending == [kind |-> "pending", response |-> NoResponse]
PrThrown(error) == [kind |-> error, response |-> NoResponse]
PrReturned(response) == [kind |-> "returned", response |-> response]

\* the text handed to JSON.parse: the match, repaired when it looks truncated
TextToParse(jsonMatch) ==
    IF ~EndsWithBrace(jsonMatch) THEN RepairTruncated(jsonMatch) ELSE jsonMatch

\* GeminiAIService.generateConversationalResponse from the provider's text on
GeminiParseContent(content) ==
    LET jsonMatch == RegexMatch(content)
    IN IF jsonMatch = <<>> THEN PrReturned(getFallbackResponse)
       ELSE IF ~IsValidJson(TextToParse(jsonMatch))
            THEN PrReturned(getFallbackResponse)
       ELSE PrReturned(GeminiEnsureNextPhase(JsonParse(TextToParse(jsonMatch))))

\* OpenAIService.generateConversationalResponse from the provider's text on
OpenAIParseContent(content) ==
    LET jsonMatch == RegexMatch(content)
    IN IF jsonMatch = <<>> THEN PrThrown("no_json")
       ELSE IF ~IsValidJson(TextToParse(jsonMatch)) THEN PrThrown("parse_error")
       ELSE PrReturned(OpenAIEnsureNextPhase(JsonParse(TextToParse(jsonMatch))))

GeminiGenerateConversationalResponse ==
    /\ pr_out.kind = "pending"
    /\ pr_out' = GeminiParseContent(pr_content)
    /\ UNCHANGED <<pr_content, prOthers>>

OpenAIGenerateConversationalResponse ==
    /\ pr_out.kind = "pending"
    /\ pr_out' = OpenAIParseContent(pr_content)
    /\ UNCHANGED <<pr_content, prOthers>>

----------------------------------------------------------------------------
(* SessionService: createSession, saveResponse, updateRiasecScores          *)

\* Scores are held in quarters of a point: (responseValue - 1) / 4 times an
\* integer weight is a whole number of quarters, which both the number type
\* and the DECIMAL(8,4) columns hold exactly.

\* riasec_weights of questions of the question bank
BankWeights ==
    {[R |-> 3, I |-> 1, A |-> 0, S |-> 0, E |-> 0, C |-> 0],
     [R |-> 1, I |-> 3, A |-> 0, S |-> 0, E |-> 0, C |-> 0]}
\* response_value accepted by the request schema
ResponseValues == 1..5
SaveInputs == [responseValue : ResponseValues, riasecWeights : BankWeights]

\* normalizedResponse = (responseValue - 1) / 4, in quarters
NormalizedResponse_NoShift(responseValue) == responseValue
NormalizedResponse(responseValue) == responseValue - 1

\* currentScoresData.x_score + (normalizedResponse * riasecWeights.X)
AddToScore_Overwrite(current, normalizedResponse, weight) ==
    normalizedResponse * weight
AddToScore(current, normalizedResponse, weight) ==
    current + normalizedResponse * weight

\* the updates object built by updateRiasecScores: the dimensions it holds ...
UpdatedDims(riasecWeights) == {d \in Dims : riasecWeights[LetterOf(d)] > 0}
\* ... and the row after SessionModel.updateRiasecScores has written them
updateRiasecScores(currentScoresData, responseValue, riasecWeights) ==
    [d \in Dims |->
        IF d \in UpdatedDims(riasecWeights)
        THEN AddToScore(currentScoresData[d], NormalizedResponse(responseValue),
                        riasecWeights[LetterOf(d)])
        ELSE currentScoresData[d]]

NoSave == [index |-> 0, ok |-> FALSE]

\* SessionService.createSession: the scores row is inserted with zeros
createSession ==
    /\ ~ss_exists
    /\ ss_exists' = TRUE
    /\ ss_scores' = [d \in Dims |-> 0]
    /\ UNCHANGED <<ss_responses, ss_inputs, ss_done, ss_ret, ssOthers>>

\* SessionService.saveResponse for the i-th input: the response row is
\* inserted, then the scores row is read, updated and written; without a
\* scores row updateRiasecScores throws after the response row was inserted
saveResponse(i) ==
    /\ i \in DOMAIN ss_inputs
    /\ i \notin ss_done
    /\ ss_responses' = ss_responses + 1
    /\ IF ss_exists
       THEN /\ ss_scores' = updateRiasecScores(ss_scores, ss_inputs[i].responseValue,
                                               ss_inputs[i].riasecWeights)
            /\ ss_done' = ss_done \cup {i}
            /\ ss_ret' = [index |-> i, ok |-> TRUE]
       ELSE /\ ss_ret' = [index |-> i, ok |-> FALSE]
            /\ ss_responses = 0
            /\ UNCHANGED <<ss_scores, ss_done>>
    /\ UNCHANGED <<ss_exists, ss_inputs, ssOthers>>

----------------------------------------------------------------------------
(* RiasecService.normalizeScores                                            *)

\* Math.round of the fraction num / den (den > 0): floor(num / den + 1/2)
RoundDiv(num, den) == (2 * num + den) \div (2 * den)

Min(a, b) == IF a < b THEN a ELSE b

maxPossibleScore == 20

\* Math.min(100, Math.round((score / maxPossibleScore) * 100)) of a score
\* given in quarters of a point
NormalizeOne(quarters) == Min(100, RoundDiv(quarters * 100, 4 * maxPossibleScore))

NzNone == [called |-> FALSE, scores |-> [d \in Dims |-> 0]]

normalizeScores ==
    /\ ~nz_out.called
    /\ nz_out' = [called |-> TRUE,
                  scores |-> [d \in Dims |-> NormalizeOne(nz_scores[d])]]
    /\ UNCHANGED <<nz_scores, nzOthers>>

----------------------------------------------------------------------------
(* CareerMatchingService                                                    *)

\* the order of the keys of a RiasecScore object
DimOrder == <<"realistic", "investigative", "artistic", "social", "enterprising",
              "conventional">>
DimPos(d) == CHOOSE i \in 1..6 : DimOrder[i] = d

\* sum of f over the six dimensions
SumDims(f) ==
    f["realistic"] + f["investigative"] + f["artistic"] + f["social"]
        + f["enterprising"] + f["conventional"]

\* calculateCorrelation, with the user scores in quarters of a point and the
\* career scores in 0..100: weight = userScore + 0.1 is (5q + 2) / 20, the sum
\* of userScore * careerScore * weight is CorrelationSum / 8000 and
\* totalWeight is WeightSum / 20
CorrelationSum(scores1, scores2) ==
    SumDims([d \in Dims |-> scores1[d] * scores2[d] * (5 * scores1[d] + 2)])
WeightSum(scores1) == SumDims([d \in Dims |-> 5 * scores1[d] + 2])

\* Math.round(compatibility * 100), compatibility being
\* totalWeight > 0 ? correlation / totalWeight : 0
CompatibilityScore(userScores, careerScores) ==
    IF WeightSum(userScores) > 0
    THEN RoundDiv(CorrelationSum(userScores, careerScores), 4 * WeightSum(userScores))
    ELSE 0

\* getTopRiasecTypes: the entries sorted by score, highest first, entries of
\* equal score in key order (Array.prototype.sort is stable); the first count
TypeRank(scores, d) ==
    Cardinality({e \in Dims : \/ scores[e] > scores[d]
                              \/ scores[e] = scores[d] /\ DimPos(e) < DimPos(d)})
getTopRiasecTypes(scores, count) == {d \in Dims : TypeRank(scores, d) < count}

\* calculateCompatibility of the row at position index
calculateCompatibility(userScores, career, index) ==
    [index |-> index,
     compatibility_score |-> CompatibilityScore(userScores, career.scores),
     primary_match |-> career.primary_riasec_type \in getTopRiasecTypes(userScores, 2),
     secondary_match |-> career.secondary_riasec_type \in getTopRiasecTypes(userScores, 2)]

\* the rows the query returns: .lte('duration_years', duration_max) when
\* filters.duration_max is truthy, .in('primary_riasec_type', riasec_types)
\* when the list is supplied and not empty; -1 stands for undefined
QueryCareers(rows, duration_max, riasec_types) ==
    {i \in DOMAIN rows :
        /\ (duration_max # -1 /\ duration_max # 0)
              => rows[i].duration_years <= duration_max
        /\ (riasec_types.present /\ riasec_types.list # {})
              => rows[i].primary_riasec_type \in riasec_types.list}

\* the comparator (a, b) => b.compatibility_score - a.compatibility_score is
\* negative: a is placed before b
ComesBefore_FlagsFirst(a, b) ==
    \/ a.primary_match /\ ~b.primary_match
    \/ a.primary_match = b.primary_match /\ a.compatibility_score > b.compatibility_score
ComesBefore(a, b) == a.compatibility_score > b.compatibility_score

\* Array.prototype.sort of the matches of the queried rows (stable: matches
\* the comparator does not order keep the order of the query result)
SortMatches(matches) ==
    LET idx == {m.index : m \in matches}
        at(i) == CHOOSE m \in matches : m.index = i
        rank(i) == Cardinality({j \in idx :
                       \/ ComesBefore(at(j), at(i))
                       \/ ~ComesBefore(at(i), at(j)) /\ j < i})
    IN [k \in 1..Cardinality(idx) |-> at(CHOOSE i \in idx : rank(i) = k - 1)]

CmNoCall == [called |-> FALSE, limit |-> 0, duration_max |-> -1,
             riasec_types |-> [present |-> FALSE, list |-> {}]]

getCareerRecommendations(limit, duration_max, riasec_types) ==
    /\ ~cm_call.called
    /\ cm_call' = [called |-> TRUE, limit |-> limit, duration_max |-> duration_max,
                   riasec_types |-> riasec_types]
    /\ LET careers_ == QueryCareers(cm_careers, duration_max, riasec_types)
           matches == {calculateCompatibility(cm_userScores, cm_careers[i], i) :
                          i \in careers_}
       IN /\ cm_scored' = careers_
          /\ cm_out' = SliceTo(SortMatches(matches), limit)
    /\ UNCHANGED <<cm_userScores, cm_careers, cmOthers>>

----------------------------------------------------------------------------
(* Provider credentials: AIServiceFactory.getDefaultService and             *)
(* CleanAIService.processMessage                                            *)

\* what a request to the provider may end in
ProviderOutcomes == {"ok", "api_error", "no_json", "parse_error"}

\* messages of the errors thrown
ApiKeyNotFound == "API key not found for provider"
OpenAIKeyNotConfigured == "OpenAI API key not configured"
FailedToProcess == "Failed to process AI response"

NoResult ==
    [message |-> "", nextPhase |-> "undefined",
     recommendations |-> [present |-> FALSE, list |-> <<>>],
     riasecScores |-> [present |-> FALSE, scores |-> ZeroScores]]
\* the call, how it ended, the careerIds of the reply's careerSuggestions and
\* the AIResponse returned
CfNone == [op |-> "none", ok |-> FALSE, error |-> "", proposed |-> <<>>,
           result |-> NoResult]

\* the error a catch block of processMessage lets through for the error caught
ProcessMessageCatch(error) == FailedToProcess

\* AIServiceFactory.getDefaultService
SelectedProvider == IF cf_env.AI_PROVIDER = "unset" THEN "gemini" ELSE cf_env.AI_PROVIDER
getDefaultService ==
    /\ cf_out.op = "none"
    /\ LET apiKey == IF SelectedProvider = "gemini" THEN cf_env.GEMINI_API_KEY
                     ELSE cf_env.OPENAI_API_KEY
       IN cf_out' = IF ~apiKey
                    THEN [CfNone EXCEPT !.op = "getDefaultService",
                                        !.error = ApiKeyNotFound]
                    ELSE [CfNone EXCEPT !.op = "getDefaultService", !.ok = TRUE]
    /\ UNCHANGED <<cf_env, cf_attempts, careers, cfOthers>>

\* CleanAIService.processMessage: the key test, the request to OpenAI and the
\* parsing are inside one try block whose catch throws FailedToProcess
CleanAIServiceProcessMessage(outcome, reply) ==
    /\ cf_out.op = "none"
    /\ IF ~cf_env.OPENAI_API_KEY
       THEN /\ cf_out' = [CfNone EXCEPT !.op = "processMessage",
                             !.error = ProcessMessageCatch(OpenAIKeyNotConfigured)]
            /\ UNCHANGED cf_attempts
       ELSE /\ cf_attempts' = cf_attempts + 1
            /\ cf_out' = IF outcome = "ok"
                         THEN [CfNone EXCEPT !.op = "processMessage", !.ok = TRUE,
                                  !.proposed = reply.careerSuggestions.list,
                                  !.result = CleanProcessMessage(reply, careers)]
                         ELSE [CfNone EXCEPT !.op = "processMessage",
                                  !.error = ProcessMessageCatch(outcome)]
    /\ UNCHANGED <<cf_env, careers, cfOthers>>

\* loadCareers of the CleanAIService instance settles
CfLoadCareers ==
    /\ careers = {}
    /\ careers' = Catalog
    /\ UNCHANGED <<cfVars, cfOthers>>

----------------------------------------------------------------------------
(* VocationalTestService: calls on one session that overlap in time         *)

\* Every handler reads the row with getSession, awaits the provider and then
\* writes with update(...).eq('id', sessionId); the steps of two calls
\* interleave at the awaits.  Values written carry the number of the call
\* that wrote them; 0 marks what the row held at the start.

\* number of calls under way on the session
NumCalls == 2
Calls == 1..NumCalls

CcMsg(call, n) == [call |-> call, n |-> n]
InitialHistory(len) == [i \in 1..len |-> CcMsg(0, i)]

NoRow == [phase |-> "none", history |-> <<>>, scores |-> 0, recs |-> 0,
          rcStart |-> -1]

\* the aiResponse of a call: mapped nextPhase, recommendations and
\* riasecScores present or not
CcResponses ==
    [nextPhase : {"undefined", "career_matching", "reality_check", "complete"},
     recommendations : BOOLEAN, riasecScores : BOOLEAN]

\* a write: the row with the columns of updateData replaced
WriteColumns(row, updateData) ==
    [phase |-> IF updateData.phase.present THEN updateData.phase.value ELSE row.phase,
     history |-> IF updateData.history.present THEN updateData.history.value
                 ELSE row.history,
     scores |-> IF updateData.scores.present THEN updateData.scores.value
                ELSE row.scores,
     recs |-> IF updateData.recs.present THEN updateData.recs.value ELSE row.recs,
     rcStart |-> IF updateData.rcStart.present THEN updateData.rcStart.value
                 ELSE row.rcStart]

Absent == [present |-> FALSE, value |-> 0]
AbsentText == [present |-> FALSE, value |-> ""]
AbsentSeq == [present |-> FALSE, value |-> <<>>]
Present(v) == [present |-> TRUE, value |-> v]

\* whether processMessage, from the row it read, forces completion
CcForced(session, aiResponse) ==
    /\ session.phase = "reality_check"
    /\ aiResponse.nextPhase \in {"undefined", "reality_check"}
    /\ (Len(session.history) + 2)
          - (IF session.rcStart = -1 THEN 0 ELSE session.rcStart) >= RealityCheckLimit

\* updateData of processMessage (lines 165-219) for the row read
ProcessMessageUpdate(session, call, aiResponse, completionResponse) ==
    LET finalHistory == session.history \o <<CcMsg(call, 1), CcMsg(call, 2)>>
        forced == CcForced(session, aiResponse)
        nextPhase == IF forced THEN "complete" ELSE aiResponse.nextPhase
        recommendations == IF forced THEN completionResponse.recommendations
                           ELSE aiResponse.recommendations
        riasecScores == IF forced
                        THEN completionResponse.riasecScores \/ aiResponse.riasecScores
                        ELSE aiResponse.riasecScores
    IN [history |-> Present(finalHistory),
        phase |-> IF nextPhase # "undefined" THEN Present(nextPhase) ELSE AbsentText,
        recs |-> IF recommendations THEN Present(call) ELSE Absent,
        scores |-> IF riasecScores THEN Present(call) ELSE Absent,
        rcStart |-> Absent]

\* a call starts: getSession reads the row
CcGetSession(call, op) ==
    /\ cc_pc[call] = "idle"
    /\ cc_pc' = [cc_pc EXCEPT ![call] = op]
    /\ cc_op' = [cc_op EXCEPT ![call] = op]
    /\ cc_session' = [cc_session EXCEPT ![call] = cc_row]
    /\ cc_result' = [cc_result EXCEPT ![call] = cc_row]
    /\ UNCHANGED <<cc_row, ccOthers>>

\* the call writes updateData and is at position next
CcWrite(call, updateData, next) ==
    /\ cc_row' = WriteColumns(cc_row, updateData)
    /\ cc_result' = [cc_result EXCEPT ![call] = WriteColumns(@, updateData)]
    /\ cc_pc' = [cc_pc EXCEPT ![call] = next]
    /\ UNCHANGED <<cc_op, cc_session, ccOthers>>

\* the call throws without writing
CcThrow(call) ==
    /\ cc_pc' = [cc_pc EXCEPT ![call] = "failed"]
    /\ UNCHANGED <<cc_row, cc_op, cc_session, cc_result, ccOthers>>

\* processMessage after the provider answered: the single update
CcProcessMessageWrite(call, aiResponse, completionResponse) ==
    /\ cc_pc[call] = "processMessage"
    /\ CcWrite(call, ProcessMessageUpdate(cc_session[call], call, aiResponse,
                                          completionResponse), "done")

\* processMessage when the provider call fails
CcProcessMessageFail(call) ==
    /\ cc_pc[call] = "processMessage"
    /\ CcThrow(call)

\* transitionToPhase: the phase is written at once (lines 257-265) ...
CcTransitionWritePhase(call, targetPhase) ==
    /\ cc_pc[call] = "transitionToPhase"
    /\ CcWrite(call, [history |-> AbsentSeq, phase |-> Present(targetPhase),
                      recs |-> Absent, scores |-> Absent, rcStart |-> Absent],
               IF targetPhase = "reality_check" THEN "transitionQuestion" ELSE "done")

\* ... and for reality_check, after the provider answered, the history read at
\* the start plus the first question, with the start count (lines 291-303)
CcTransitionWriteQuestion(call) ==
    /\ cc_pc[call] = "transitionQuestion"
    /\ CcWrite(call,
               [history |-> Present(Append(cc_session[call].history, CcMsg(call, 1))),
                phase |-> AbsentText, recs |-> Absent, scores |-> Absent,
                rcStart |-> Present(Len(cc_session[call].history))],
               "done")

\* completeRealityCheck: throws unless the row read is in reality_check,
\* otherwise one update after the provider answered (lines 346-370)
CcCompleteRealityCheck(call, aiResponse) ==
    /\ cc_pc[call] = "completeRealityCheck"
    /\ IF cc_session[call].phase # "reality_check"
       THEN CcThrow(call)
       ELSE CcWrite(call,
               [history |-> Present(Append(cc_session[call].history, CcMsg(call, 1))),
                phase |-> Present("complete"),
                recs |-> IF aiResponse.recommendations THEN Present(call) ELSE Absent,
                scores |-> IF aiResponse.riasecScores THEN Present(call) ELSE Absent,
                rcStart |-> Absent],
               "done")

----------------------------------------------------------------------------
(* VocationalTestService: the phase of one session over successive calls *)

\* The calls run one after the other.  Of the row only current_phase, the
\* kinds of the messages of conversation_history and the reality-check start
\* count are kept; of the provider's reply only intent and nextPhase.

\* most first reality-check questions and final messages a history may hold
MaxReentries == 2

PhNoRow == [phase |-> "none", history |-> <<>>, rcStart |-> -1]
PhNoCall == [op |-> "none", target |-> "none", ok |-> FALSE, declared |-> "none",
             intent |-> "none", forced |-> FALSE]

\* number of messages of a kind in a history
CountOf(history, kind) == Cardinality({i \in DOMAIN history : history[i] = kind})

\* aiResponse.nextPhase of CleanAIService.processMessage for a reply
PhNextPhase(declared, intent) ==
    mapPhase(OpenAIEnsureNextPhase([nextPhase |-> declared, intent |-> intent]).nextPhase)

\* the bookkeeping of reality-check entry for a call that leaves the row as
\* newRow; lenAtWrite is the length of the history when the phase was written
\* and turn tells whether the call persisted a user turn
PhTrack(newRow, lenAtWrite, turn) ==
    LET entering == newRow.phase = "reality_check" /\ ph_row.phase # "reality_check"
    IN  /\ ph_entry' = IF entering THEN lenAtWrite ELSE ph_entry
        /\ ph_turns' = IF entering THEN 0
                       ELSE IF turn /\ ph_entry >= 0 THEN ph_turns + 1
                       ELSE ph_turns
        /\ ph_reached' = IF entering THEN FALSE
                         ELSE ph_reached \/ (ph_entry >= 0 /\ newRow.phase = "complete")

\* startSession: the row is inserted with an empty history; the greeting is
\* stored once the provider has answered
PhStartSession(aiOk) ==
    /\ ph_row.phase = "none"
    /\ ph_row' = [phase |-> "exploration",
                  history |-> IF aiOk THEN <<"greeting">> ELSE <<>>,
                  rcStart |-> -1]
    /\ ph_ret' = [PhNoCall EXCEPT !.op = "startSession", !.ok = aiOk]
    /\ UNCHANGED <<ph_entry, ph_turns, ph_reached, phOthers>>

\* processMessage: one update with the history and, when aiResponse.nextPhase
\* is set (by the reply or by the forced completion), the phase
PhProcessMessage(declared, intent, aiOk, completionOk) ==
    /\ ph_row.phase # "none"
    /\ Len(ph_row.history) + 2 <= MaxHistory
    /\ LET nextPhase == PhNextPhase(declared, intent)
           forced == aiOk /\ CcForced(ph_row, [nextPhase |-> nextPhase])
           ok == aiOk /\ (forced => completionOk)
           finalHistory == ph_row.history \o <<"user", "assistant">>
           newRow == IF ok
                     THEN [ph_row EXCEPT
                             !.history = finalHistory,
                             !.phase = IF forced THEN "complete"
                                       ELSE IF nextPhase # "undefined" THEN nextPhase
                                       ELSE @]
                     ELSE ph_row
       IN  /\ ph_row' = newRow
           /\ ph_ret' = [op |-> "processMessage", target |-> "none", ok |-> ok,
                         declared |-> IF aiOk THEN declared ELSE "none",
                         intent |-> IF aiOk THEN intent ELSE "none",
                         forced |-> forced]
           /\ PhTrack(newRow, Len(finalHistory), ok)
    /\ UNCHANGED phOthers

\* transitionToPhase: the phase is written first; for reality_check the first
\* question is then appended to the history read at the start and the length
\* of that history is recorded as the start count
PhTransitionToPhase(targetPhase, aiOk) ==
    /\ ph_row.phase # "none"
    /\ targetPhase = "reality_check" =>
          /\ Len(ph_row.history) + 1 <= MaxHistory
          /\ CountOf(ph_row.history, "rc_question")
                + CountOf(ph_row.history, "final") < MaxReentries
    /\ LET asked == targetPhase = "reality_check" /\ aiOk
           newRow == IF asked
                     THEN [phase |-> targetPhase,
                           history |-> Append(ph_row.history, "rc_question"),
                           rcStart |-> Len(ph_row.history)]
                     ELSE [ph_row EXCEPT !.phase = targetPhase]
       IN  /\ ph_row' = newRow
           /\ ph_ret' = [PhNoCall EXCEPT !.op = "transitionToPhase",
                           !.target = targetPhase,
                           !.ok = (targetPhase = "reality_check" => aiOk)]
           /\ PhTrack(newRow, Len(ph_row.history), FALSE)
    /\ UNCHANGED phOthers

\* completeRealityCheck: throws unless the phase is reality_check; otherwise
\* one update with the final message and phase complete
PhCompleteRealityCheck(aiOk) ==
    /\ ph_row.phase # "none"
    /\ Len(ph_row.history) + 1 <= MaxHistory
    /\ CountOf(ph_row.history, "rc_question")
          + CountOf(ph_row.history, "final") < MaxReentries
    /\ LET ok == ph_row.phase = "reality_check" /\ aiOk
           newRow == IF ok
                     THEN [ph_row EXCEPT !.phase = "complete",
                                         !.history = Append(@, "final")]
                     ELSE ph_row
       IN  /\ ph_row' = newRow
           /\ ph_ret' = [PhNoCall EXCEPT !.op = "completeRealityCheck", !.ok = ok]
           /\ PhTrack(newRow, Len(ph_row.history), FALSE)
    /\ UNCHANGED phOthers

----------------------------------------------------------------------------
(* Structured test: SessionService.analyzeTestState and the controllers *)

\* most responses recorded for one session, and for one category of it
MaxTestResponses == 21
MaxPerCategory == 4

\* hasMinimumQuestions and hasMaxQuestions compare the response count to these
MinimumQuestions == 12
MaximumQuestions == 20

TqNoRequest == [op |-> "none", status |-> 0, completed |-> FALSE, served |-> FALSE]

\* responses.length, from the distribution of the recorded responses
ResponseCount(dist) == SumDims(dist)

\* a variant satisfied by responses in one category only
hasGoodQuestionDistribution_Some(dist) == \E d \in Dims : dist[d] >= 1
hasGoodQuestionDistribution(dist) == \A d \in Dims : dist[d] >= 1

analyzeTestState(dist) ==
    LET hasMinimumQuestions == ResponseCount(dist) >= MinimumQuestions
        hasGoodDistribution == hasGoodQuestionDistribution(dist)
        hasMaxQuestions == ResponseCount(dist) >= MaximumQuestions
    IN [can_complete |-> hasMinimumQuestions /\ hasGoodDistribution,
        should_continue |-> ~hasMaxQuestions
                              /\ (~hasMinimumQuestions \/ ~hasGoodDistribution)]

\* POST /sessions: the session row and its scores row are inserted
TqCreateSession ==
    /\ tq_status = "none"
    /\ tq_status' = "in_progress"
    /\ tq_ret' = [TqNoRequest EXCEPT !.op = "createSession", !.status = 201]
    /\ UNCHANGED <<tq_dist, tqOthers>>

\* QuestionController.submitResponse for a question of the bank; saved tells
\* how saveResponse ended: "ok", "failed_before" the response row was
\* inserted, or "failed_after" it was (the score update threw)
submitResponse(question_category, saved) ==
    /\ tq_status # "none"
    /\ ResponseCount(tq_dist) < MaxTestResponses
    /\ tq_dist[question_category] < MaxPerCategory
    /\ LET dist == IF saved = "failed_before" THEN tq_dist
                   ELSE [tq_dist EXCEPT ![question_category] = @ + 1]
           test_state == analyzeTestState(dist)
       IN  /\ tq_dist' = dist
           /\ IF saved # "ok"
              THEN /\ tq_ret' = [TqNoRequest EXCEPT !.op = "submitResponse",
                                                   !.status = 500]
                   /\ UNCHANGED tq_status
              ELSE IF ~test_state.should_continue
              THEN /\ tq_status' = "completed"
                   /\ tq_ret' = [op |-> "submitResponse", status |-> 200,
                                 completed |-> TRUE, served |-> FALSE]
              ELSE /\ UNCHANGED tq_status
                   /\ tq_ret' = [op |-> "submitResponse", status |-> 200,
                                 completed |-> FALSE, served |-> TRUE]
    /\ UNCHANGED tqOthers

\* SessionController.completeSession
completeSession ==
    /\ tq_status # "none"
    /\ IF ~analyzeTestState(tq_dist).can_complete
       THEN /\ tq_ret' = [TqNoRequest EXCEPT !.op = "completeSession", !.status = 400]
            /\ UNCHANGED tq_status
       ELSE /\ tq_status' = "completed"
            /\ tq_ret' = [op |-> "completeSession", status |-> 200,
                          completed |-> TRUE, served |-> FALSE]
    /\ UNCHANGED <<tq_dist, tqOthers>>

----------------------------------------------------------------------------
(* VocationalTestService: the score vector and the recommendations of a row *)

\* Of the row only riasec_scores and recommendations are kept.  Whether the
\* session is in reality_check and whether its history has reached the limit
\* are inputs of each call.

NoAssertion == [present |-> FALSE, scores |-> ZeroScores]
SvNoRow == [exists |-> FALSE, scores |-> ZeroScores, recs |-> <<>>]
SvNoCall == [op |-> "none", ok |-> FALSE, forced |-> FALSE,
             riasecScores |-> NoAssertion,
             recommendations |-> [present |-> FALSE, list |-> <<>>]]

\* the row after the update of a call that got this aiResponse (lines 209-219)
SvUpdate(row, aiResponse) ==
    [exists |-> TRUE,
     scores |-> IF aiResponse.riasecScores.present
                THEN aiResponse.riasecScores.scores ELSE row.scores,
     recs |-> IF aiResponse.recommendations.present
              THEN aiResponse.recommendations.list ELSE row.recs]

\* startSession: the row is inserted with six zeros and no recommendation
SvStartSession ==
    /\ ~sv_row.exists
    /\ sv_row' = [exists |-> TRUE, scores |-> ZeroScores, recs |-> <<>>]
    /\ sv_ret' = [SvNoCall EXCEPT !.op = "startSession", !.ok = TRUE]
    /\ UNCHANGED <<careers, svOthers>>

\* processMessage; limitReached tells whether the session is in reality_check
\* with 12 messages or more since the recorded start
SvProcessMessage(reply, aiOk, limitReached, completionReply, completionOk) ==
    /\ sv_row.exists
    /\ LET first == CleanProcessMessage(reply, careers)
           forced == /\ aiOk
                     /\ limitReached
                     /\ first.nextPhase \in {"undefined", "reality_check"}
           ok == aiOk /\ (forced => completionOk)
           aiResponse == IF forced
                         THEN ApplyForcedCompletion(first,
                                  CleanProcessMessage(completionReply, careers))
                         ELSE first
       IN  IF ok
           THEN /\ sv_row' = SvUpdate(sv_row, aiResponse)
                /\ sv_ret' = [op |-> "processMessage", ok |-> TRUE, forced |-> forced,
                              riasecScores |-> aiResponse.riasecScores,
                              recommendations |-> aiResponse.recommendations]
           ELSE /\ sv_row' = sv_row
                /\ sv_ret' = [SvNoCall EXCEPT !.op = "processMessage"]
    /\ UNCHANGED <<careers, svOthers>>

\* completeRealityCheck on a session in reality_check
SvCompleteRealityCheck(reply, aiOk) ==
    /\ sv_row.exists
    /\ LET aiResponse == CleanProcessMessage(reply, careers)
       IN  IF aiOk
           THEN /\ sv_row' = SvUpdate(sv_row, aiResponse)
                /\ sv_ret' = [op |-> "completeRealityCheck", ok |-> TRUE,
                              forced |-> FALSE,
                              riasecScores |-> aiResponse.riasecScores,
                              recommendations |-> aiResponse.recommendations]
           ELSE /\ sv_row' = sv_row
                /\ sv_ret' = [SvNoCall EXCEPT !.op = "completeRealityCheck"]
    /\ UNCHANGED <<careers, svOthers>>

----------------------------------------------------------------------------
(* GeminiAIService.isRetryableError on the error object *)

\* most fragments a thrown error's message is made of
MaxMessageParts == 1

\* the fragments of a message as the thrower wrote them; none of them holds
\* another one, or one of the words isRetryableError looks for, inside it
MessageParts == {"The model is overloaded", "Rate limit exceeded",
                 "Request timeout", "Network error", "connect ETIMEDOUT",
                 "read ECONNRESET", "API key not valid"}

\* String.prototype.toLowerCase on a fragment, as the words it then holds
toLowerCase(part) ==
    CASE part = "The model is overloaded" -> {"the", "model", "is", "overloaded"}
      [] part = "Rate limit exceeded" -> {"rate limit", "exceeded"}
      [] part = "Request timeout" -> {"request", "timeout"}
      [] part = "Network error" -> {"network", "error"}
      [] part = "connect ETIMEDOUT" -> {"connect", "etimedout"}
      [] part = "read ECONNRESET" -> {"read", "econnreset"}
      [] OTHER -> {"api", "key", "not", "valid"}

\* the error objects: error.status (or error.response.status), 0 when there is
\* none; error.message; error.code, "none" when there is none
ErrorStatuses == {0, 400, 401, 404, 429, 500, 501, 502, 503, 504, 505, 599}
ErrorCodes == {"none", "ETIMEDOUT", "ECONNRESET", "ENOTFOUND"}
ErrorObjects ==
    {[status |-> st, message |-> msg, code |-> code] :
        st \in ErrorStatuses,
        msg \in {m \in SUBSET MessageParts : Cardinality(m) <= MaxMessageParts},
        code \in ErrorCodes}

\* lines 881-882: the lower-cased message and the status are all that is read
ErrorRead(error) ==
    [kind |-> "error", status |-> error.status,
     words |-> UNION {toLowerCase(part) : part \in error.message}]

NoClassification == [done |-> FALSE, shouldRetry |-> FALSE]
NoErrorObject == [status |-> 0, message |-> {}, code |-> "none"]

\* one call of isRetryableError
CallIsRetryableError(error) ==
    /\ er_error' = error
    /\ er_out' = [done |-> TRUE, shouldRetry |-> isRetryableError(ErrorRead(error))]
    /\ UNCHANGED erOthers

----------------------------------------------------------------------------
(* AIServiceFactory: the instances it constructs and returns *)

Providers == {"gemini", "openai"}
AfNoCall == [op |-> "none", ok |-> FALSE, provider |-> "none", error |-> ""]
UnsupportedProvider == "Unsupported AI provider"

\* process.env.AI_PROVIDER || 'gemini'
DefaultProviderOf(env) ==
    IF env.AI_PROVIDER = "unset" THEN "gemini" ELSE env.AI_PROVIDER
\* the provider getBackupService takes as the backup (line 49)
BackupProviderOf(env) ==
    IF DefaultProviderOf(env) = "gemini" THEN "openai" ELSE "gemini"
\* the key read for a provider (lines 35-37 and 51-53)
ApiKeyOf(env, provider) ==
    IF provider = "gemini" THEN env.GEMINI_API_KEY ELSE env.OPENAI_API_KEY

\* createService: the instances map after the call and what the call gives
createService(instances, provider, op) ==
    IF provider \in instances
    THEN [instances |-> instances,
          ret |-> [AfNoCall EXCEPT !.op = op, !.ok = TRUE, !.provider = provider]]
    ELSE IF provider \in Providers
    THEN [instances |-> instances \cup {provider},
          ret |-> [AfNoCall EXCEPT !.op = op, !.ok = TRUE, !.provider = provider]]
    ELSE [instances |-> instances,
          ret |-> [AfNoCall EXCEPT !.op = op, !.error = UnsupportedProvider]]

\* getDefaultService as a function of the environment and the instances map
DefaultServiceCall(env, instances, op) ==
    LET provider == DefaultProviderOf(env)
    IN  IF ~ApiKeyOf(env, provider)
        THEN [instances |-> instances,
              ret |-> [AfNoCall EXCEPT !.op = op, !.error = ApiKeyNotFound]]
        ELSE createService(instances, provider, op)

\* a caller runs AIServiceFactory.createService with a provider and its key
CallCreateService(provider) ==
    /\ ApiKeyOf(af_env, provider)
    /\ LET call == createService(af_instances, provider, "createService")
       IN  /\ af_instances' = call.instances
           /\ af_ret' = call.ret
    /\ UNCHANGED <<af_env, afOthers>>

CallGetDefaultService ==
    /\ LET call == DefaultServiceCall(af_env, af_instances, "getDefaultService")
       IN  /\ af_instances' = call.instances
           /\ af_ret' = call.ret
    /\ UNCHANGED <<af_env, afOthers>>

getBackupService ==
    /\ LET backupProvider == BackupProviderOf(af_env)
           call == IF ~ApiKeyOf(af_env, backupProvider)
                   THEN DefaultServiceCall(af_env, af_instances, "getBackupService")
                   ELSE createService(af_instances, backupProvider,
                                      "getBackupService")
       IN  /\ af_instances' = call.instances
           /\ af_ret' = call.ret
    /\ UNCHANGED <<af_env, afOthers>>

----------------------------------------------------------------------------
(* RiasecService: getTopTypes, getRiasecCode *)

\* Object.entries of the object normalizeScores builds: its keys are written
\* in the order of the literal (lines 366-373)
ObjectEntries(scores) ==
    [i \in 1..6 |-> [type |-> DimOrder[i], score |-> scores[DimOrder[i]]]]

\* the number of entries sort((a, b) => b - a) puts before entry i: those of
\* a higher score and, the sort being stable, those of the same score that
\* come earlier in the array
EntriesBefore(entries, i) ==
    Cardinality({j \in DOMAIN entries :
                    \/ entries[j].score > entries[i].score
                    \/ entries[j].score = entries[i].score /\ j < i})

\* a variant in which entries of the same score change places
SortDescending_TiesReversed(entries) ==
    [r \in DOMAIN entries |->
        entries[CHOOSE i \in DOMAIN entries :
                   Cardinality({j \in DOMAIN entries :
                       \/ entries[j].score > entries[i].score
                       \/ entries[j].score = entries[i].score /\ j > i}) = r - 1]]
SortDescending(entries) ==
    [r \in DOMAIN entries |->
        entries[CHOOSE i \in DOMAIN entries : EntriesBefore(entries, i) = r - 1]]

\* getDominantTypes: sort, slice(0, count), map to the type
getDominantTypes(scores, count) ==
    LET sorted == SortDescending(ObjectEntries(scores))
    IN  [r \in 1..Min(count, Len(sorted)) |-> sorted[r].type]

\* generateRiasecCode: the letters of the first three types, joined
generateRiasecCode(dominantTypes) ==
    [r \in 1..Min(3, Len(dominantTypes)) |-> LetterOf(dominantTypes[r])]

TtNoCall == [op |-> "none", count |-> 0, topTypes |-> <<>>, code |-> <<>>]

getTopTypes(count) ==
    /\ tt_out' = [TtNoCall EXCEPT !.op = "getTopTypes", !.count = count,
                                  !.topTypes = getDominantTypes(tt_scores, count)]
    /\ UNCHANGED <<tt_scores, ttOthers>>

getRiasecCode ==
    /\ tt_out' = [TtNoCall EXCEPT
                     !.op = "getRiasecCode",
                     !.code = generateRiasecCode(getDominantTypes(tt_scores, 3))]
    /\ UNCHANGED <<tt_scores, ttOthers>>

----------------------------------------------------------------------------
(* SessionService.saveResponse: calls on one session that overlap *)

\* Each await of saveResponse is a step: the insert of the response row
\* (getNextQuestionOrder and ResponseModel.create), the read of the scores row
\* (SessionModel.getRiasecScores) and the write of the updates object
\* (SessionModel.updateRiasecScores).  Steps of different calls interleave.

NoSaveInput == [responseValue |-> 1,
                riasecWeights |-> [R |-> 0, I |-> 0, A |-> 0, S |-> 0, E |-> 0,
                                   C |-> 0]]

\* the row after the UPDATE of the columns the updates object holds, the
\* updates having been computed from the row as it was read
WriteUpdates(row, currentScoresData, responseValue, riasecWeights) ==
    [d \in Dims |->
        IF d \in UpdatedDims(riasecWeights)
        THEN updateRiasecScores(currentScoresData, responseValue, riasecWeights)[d]
        ELSE row[d]]

\* saveResponse up to the insert of the response row
ScCreateResponse(call, input) ==
    /\ sc_pc[call] = "idle"
    /\ sc_input' = [sc_input EXCEPT ![call] = input]
    /\ sc_responses' = sc_responses + 1
    /\ sc_pc' = [sc_pc EXCEPT ![call] = "inserted"]
    /\ UNCHANGED <<sc_start, sc_scores, sc_current, scOthers>>

\* updateRiasecScores: SessionModel.getRiasecScores
ScGetRiasecScores(call) ==
    /\ sc_pc[call] = "inserted"
    /\ sc_current' = [sc_current EXCEPT ![call] = sc_scores]
    /\ sc_pc' = [sc_pc EXCEPT ![call] = "read"]
    /\ UNCHANGED <<sc_start, sc_scores, sc_responses, sc_input, scOthers>>

\* updateRiasecScores: the updates are computed and written
ScUpdateRiasecScores(call) ==
    /\ sc_pc[call] = "read"
    /\ sc_scores' = WriteUpdates(sc_scores, sc_current[call],
                                 sc_input[call].responseValue,
                                 sc_input[call].riasecWeights)
    /\ sc_pc' = [sc_pc EXCEPT ![call] = "done"]
    /\ UNCHANGED <<sc_start, sc_responses, sc_input, sc_current, scOthers>>

----------------------------------------------------------------------------
(* QuestionService.getNextQuestion and the questions a session is served *)

\* questions of each category in QuestionModel.questionBank
QuestionsPerCategory == 4
QuestionBank == [category : Dims, n : 1..QuestionsPerCategory]
NoQuestion == [category |-> "none", n |-> 0]

\* calculateQuestionDistribution over the responses of these questions
DistributionOf(asked) ==
    [d \in Dims |-> Cardinality({q \in asked : q.category = d})]

\* findUnderexploredTypes: the categories with fewer than 2 responses, in the
\* key order of the distribution
findUnderexploredTypes(distribution) ==
    SelectSeq(DimOrder, LAMBDA d : distribution[d] < 2)

\* selectTargetRiasecType: the first underexplored type; without one, a type
\* taken from the ranking of the scores, which are not kept here
TargetTypes(asked) ==
    LET underexplored == findUnderexploredTypes(DistributionOf(asked))
    IN  IF Len(underexplored) > 0 THEN {underexplored[1]} ELSE Dims

\* a variant that does not leave out the questions already asked
findByCategory_NoExclude(category, excludeIds) ==
    {q \in QuestionBank : q.category = category}
findByCategory(category, excludeIds) ==
    {q \in QuestionBank : q.category = category} \ excludeIds

\* getQuestionForType: the questions the random choices can return, NoQuestion
\* for null
getQuestionForType(riasecType, askedQuestions) ==
    IF findByCategory(riasecType, askedQuestions) # {}
    THEN findByCategory(riasecType, askedQuestions)
    ELSE IF QuestionBank \ askedQuestions # {}
    THEN QuestionBank \ askedQuestions
    ELSE {NoQuestion}

\* QuestionService.getNextQuestion on a session with these responses
NextQuestions(asked) ==
    IF ~analyzeTestState(DistributionOf(asked)).should_continue
    THEN {NoQuestion}
    ELSE UNION {getQuestionForType(t, asked) : t \in TargetTypes(asked)}

QsNoRequest == [op |-> "none", should_continue |-> FALSE, question |-> NoQuestion]

QsCreateSession ==
    /\ qs_status = "none"
    /\ qs_status' = "in_progress"
    /\ qs_ret' = [QsNoRequest EXCEPT !.op = "createSession"]
    /\ UNCHANGED <<qs_asked, qs_served, qsOthers>>

\* QuestionController.getNextQuestion, called when no served question is
\* waiting for its answer
QsGetNextQuestion(question) ==
    /\ qs_status # "none"
    /\ qs_served = NoQuestion
    /\ question \in NextQuestions(qs_asked)
    /\ qs_served' = question
    /\ qs_ret' = [op |-> "getNextQuestion",
                  should_continue |->
                      analyzeTestState(DistributionOf(qs_asked)).should_continue,
                  question |-> question]
    /\ UNCHANGED <<qs_status, qs_asked, qsOthers>>

\* QuestionController.submitResponse with the answer to the served question
QsSubmitResponse(nextQuestion) ==
    /\ qs_status # "none"
    /\ qs_served # NoQuestion
    /\ LET asked == qs_asked \cup {qs_served}
           test_state == analyzeTestState(DistributionOf(asked))
       IN  /\ qs_asked' = asked
           /\ nextQuestion \in NextQuestions(asked)
           /\ qs_served' = nextQuestion
           /\ qs_status' = IF ~test_state.should_continue THEN "completed"
                           ELSE qs_status
           /\ qs_ret' = [op |-> "submitResponse",
                         should_continue |-> test_state.should_continue,
                         question |-> nextQuestion]
    /\ UNCHANGED qsOthers

----------------------------------------------------------------------------
(* Initial states *)

CleanInit == careers = {}

VsInit ==
    /\ vs_phase = "none"
    /\ vs_history = <<>>
    /\ vs_scores = ZeroScores
    /\ vs_recs = <<>>
    /\ vs_rcStart = -1
    /\ vs_ret = VsError
    /\ vs_turn = NoTurn

TsInit ==
    /\ ts_status = "none"
    /\ ts_phase = "none"
    /\ ts_history = <<>>
    /\ ts_confidence = 0
    /\ ts_scores = NoScores
    /\ ts_results = NoResults
    /\ ts_metadata = NoMetadata
    /\ ts_ret = TsError
    /\ ts_turn = NoTsTurn

\* no executeWithRetry call is under way; script and fallback are the inputs
\* of the call to come
RtInit(script, fallback) ==
    /\ rt_pc = "idle"
    /\ rt_attempt = 0
    /\ rt_started = 0
    /\ rt_inflight = 0
    /\ rt_lastError = NoError
    /\ rt_sleeps = <<>>
    /\ rt_outcome = Pending
    /\ rt_script = script
    /\ rt_fallback = fallback

RtIdle == RtInit(<<>>, "undefined")

\* no generateConversationalResponse call has been made on the text
PrInit(content) ==
    /\ pr_content = content
    /\ pr_out = PrPending

PrIdle == PrInit(<<>>)

\* no session of the structured test exists; inputs are the calls to come
SsInit(inputs) ==
    /\ ss_exists = FALSE
    /\ ss_scores = [d \in Dims |-> 0]
    /\ ss_responses = 0
    /\ ss_inputs = inputs
    /\ ss_done = {}
    /\ ss_ret = NoSave

SsIdle == SsInit(<<>>)

NzInit(scores) ==
    /\ nz_scores = scores
    /\ nz_out = NzNone

NzIdle == NzInit([d \in Dims |-> 0])

CmInit(userScores, rows) ==
    /\ cm_userScores = userScores
    /\ cm_careers = rows
    /\ cm_call = CmNoCall
    /\ cm_scored = {}
    /\ cm_out = <<>>

CmIdle == CmInit([d \in Dims |-> 0], <<>>)

CfInit(env) ==
    /\ cf_env = env
    /\ cf_attempts = 0
    /\ cf_out = CfNone

CfIdle == CfInit([AI_PROVIDER |-> "unset", GEMINI_API_KEY |-> TRUE,
                  OPENAI_API_KEY |-> TRUE])

\* the session exists and no call is under way
CcInit(row) ==
    /\ cc_row = row
    /\ cc_op = [call \in Calls |-> "none"]
    /\ cc_pc = [call \in Calls |-> "idle"]
    /\ cc_session = [call \in Calls |-> NoRow]
    /\ cc_result = [call \in Calls |-> NoRow]

CcIdle == CcInit(NoRow)

\* no vocational_sessions row exists
PhInit ==
    /\ ph_row = PhNoRow
    /\ ph_ret = PhNoCall
    /\ ph_entry = -1
    /\ ph_turns = 0
    /\ ph_reached = FALSE

PhIdle == PhInit

\* no session of the structured test exists
TqInit ==
    /\ tq_status = "none"
    /\ tq_dist = [d \in Dims |-> 0]
    /\ tq_ret = TqNoRequest

TqIdle == TqInit

\* no vocational_sessions row exists
SvInit ==
    /\ sv_row = SvNoRow
    /\ sv_ret = SvNoCall

SvIdle == SvInit

\* no call was made
ErInit ==
    /\ er_error = NoErrorObject
    /\ er_out = NoClassification

ErIdle == ErInit

\* no instance was constructed
AfInit ==
    /\ af_env = [AI_PROVIDER |-> "unset", GEMINI_API_KEY |-> TRUE,
                 OPENAI_API_KEY |-> TRUE]
    /\ af_instances = {}
    /\ af_ret = AfNoCall

AfIdle == AfInit

\* no call was made
TtInit ==
    /\ tt_scores = [d \in Dims |-> 0]
    /\ tt_out = TtNoCall

TtIdle == TtInit

\* the scores row exists and no call is under way
ScInit ==
    /\ sc_start = [d \in Dims |-> 0]
    /\ sc_scores = sc_start
    /\ sc_responses = 0
    /\ sc_input = [call \in Calls |-> NoSaveInput]
    /\ sc_pc = [call \in Calls |-> "idle"]
    /\ sc_current = [call \in Calls |-> [d \in Dims |-> 0]]

ScIdle == ScInit

\* no session of the structured test exists
QsInit ==
    /\ qs_status = "none"
    /\ qs_asked = {}
    /\ qs_served = NoQuestion
    /\ qs_ret = QsNoRequest

QsIdle == QsInit

CoreIdle == CleanInit /\ VsInit /\ TsInit /\ RtIdle
BaseIdle == PrIdle /\ SsIdle /\ NzIdle /\ CmIdle /\ CfIdle /\ CcIdle
ExtIdle == PhIdle /\ TqIdle /\ SvIdle /\ ErIdle /\ AfIdle /\ TtIdle /\ ScIdle /\ QsIdle
AuxIdle == BaseIdle /\ ExtIdle

----------------------------------------------------------------------------
(* Specification of VocationalTestService with CleanAIService *)

Init == CoreIdle /\ AuxIdle

\* the reply handed to processMessage for a completion request it never makes
UnusedReply ==
    [message |-> "forced_summary", intent |-> "question", nextPhase |-> "none",
     careerSuggestions |-> [present |-> FALSE, list |-> <<>>],
     riasecAssessment |-> [present |-> FALSE, scores |-> NoScores,
                           confidence |-> 0]]

\* whether processMessage, given this first reply, asks for a completion reply
AsksCompletion(reply) ==
    ForcedCompletionApplies(CleanProcessMessage(reply, careers), Len(vs_history) + 2)

Next ==
    \/ LoadCareers
    \/ \E aiOk \in BOOLEAN : startSession(aiOk)
    \/ \E reply \in AnswerReplies :
         IF AsksCompletion(reply)
         THEN \/ \E completionReply \in ForcedReplies :
                    processMessage(reply, TRUE, completionReply, TRUE)
              \/ processMessage(reply, TRUE, UnusedReply, FALSE)
         ELSE processMessage(reply, TRUE, UnusedReply, TRUE)
    \/ processMessage(UnusedReply, FALSE, UnusedReply, TRUE)
    \/ \E targetPhase \in VsPhases, aiOk \in BOOLEAN :
         transitionToPhase(targetPhase, aiOk)
    \/ \E reply \in FinalReplies : completeRealityCheck(reply, TRUE)
    \/ completeRealityCheck(UnusedReply, FALSE)

Spec == Init /\ [][Next]_vars

----------------------------------------------------------------------------
(* Specification of ConversationalSessionService *)

GreetingReplies == Replies("greeting")

NextConv ==
    \/ \E reply \in GreetingReplies : createConversationalSession(reply, TRUE)
    \/ createConversationalSession(UnusedReply, FALSE)
    \/ \E reply \in AnswerReplies :
         IF reply.nextPhase = "complete"
         THEN \E finalRiasecScores \in AssessmentInputs :
                 processUserMessage(reply, TRUE, finalRiasecScores)
         ELSE processUserMessage(reply, TRUE, NoScores)
    \/ processUserMessage(UnusedReply, FALSE, NoScores)

SpecConv == Init /\ [][NextConv]_vars

----------------------------------------------------------------------------
(* Properties of VocationalTestService (specification Spec) *)

\* position of a phase in greeting < exploration < career_matching <
\* reality_check < final_results < complete; 0 before the session exists
PhaseRank(p) ==
    CASE p = "greeting" -> 1
      [] p \in {"exploration", "enhanced_exploration"} -> 2
      [] p = "career_matching" -> 3
      [] p = "reality_check" -> 4
      [] p = "final_results" -> 5
      [] p = "complete" -> 6
      [] OTHER -> 0

\* this step is a processMessage call that persisted its turn
ProcessMessageStep ==
    /\ vs_turn'.op = "processMessage"
    /\ vs_turn'.ok
    /\ Len(vs_history') = Len(vs_history) + 2

\* this step is a processMessage call on a session in reality_check whose history,
\* with this turn's two messages, holds RealityCheckLimit messages or more
\* beyond the count recorded at reality-check entry
LimitReachedStep ==
    /\ ProcessMessageStep
    /\ vs_phase = "reality_check"
    /\ Len(vs_history') - RealityCheckStartCount >= RealityCheckLimit

\* C1: in reality_check, when the provider's reply declares reality_check or no
\* phase and the history with this turn's messages holds at least 12 messages
\* more than the count recorded at entry, the phase persisted and returned is
\* complete.
C1_ForcedAtLimit ==
    [][(LimitReachedStep /\ vs_turn'.declared \in {"reality_check", "none"})
          => (vs_phase' = "complete" /\ vs_ret'.phase = "complete")]_vars

\* C2: once the turns since reality-check entry have reached 12, the phase is
\* forced to complete whatever phase the provider's reply declares.
C2_ForcedWhateverDeclared ==
    [][LimitReachedStep => vs_phase' = "complete"]_vars

\* C3: the persisted phase never moves to an earlier phase of the order.
C3_PhaseForwardOnly ==
    [][PhaseRank(vs_phase') >= PhaseRank(vs_phase)]_vars

\* C4: once the phase is complete, no call changes the phase, the history, the
\* score vector or the recommendations.
C4_CompleteIsTerminal ==
    [][vs_phase = "complete"
          => UNCHANGED <<vs_phase, vs_history, vs_scores, vs_recs>>]_vars

----------------------------------------------------------------------------
(* Properties of ConversationalSessionService (specification SpecConv) *)

\* C5: every careerId returned to the user or persisted (the session's
\* recommendations, test_results.career_recommendations,
\* metadata.topCareerMatches) is the id of a catalog entry.
C5_OnlyCatalogIds ==
    /\ Range(vs_recs) \subseteq Catalog
    /\ Range(vs_ret.recommendations) \subseteq Catalog
    /\ Range(ts_results.career_recommendations) \subseteq Catalog
    /\ Range(ts_metadata.topCareerMatches) \subseteq Catalog
    /\ Range(ts_ret.careerSuggestions) \subseteq Catalog

\* this step is a processUserMessage call that returned a response whose
\* proposed career references are all outside the catalog
AllInvalidStep ==
    /\ ts_turn'.op = "processUserMessage"
    /\ ts_turn'.ok
    /\ ts_turn'.proposed # <<>>
    /\ Range(ts_turn'.proposed) \cap Catalog = {}

\* C6: when every proposed career reference is invalid the turn completes
\* normally: the user and assistant messages are appended to the persisted
\* history, the phase is updated, and the recommendations delivered are empty.
C6_AllInvalidStillUsable ==
    [][AllInvalidStep =>
          /\ Len(ts_history') = Len(ts_history) + 2
          /\ ts_turn'.declared \in TsPhaseCheck => ts_phase' = ts_turn'.declared
          /\ ts_ret'.careerSuggestions = <<>>]_vars

----------------------------------------------------------------------------
(* Specification of one executeWithRetry call *)

\* the operation passed to the call, as what each of its invocations does, and
\* the fallbackValue argument
Scripts == [1..MaxRetries -> Outcomes]
Fallbacks == {"undefined", "fallback_value"}

InitRetry ==
    /\ CleanInit /\ VsInit /\ TsInit /\ AuxIdle
    /\ \E script \in Scripts, fallback \in Fallbacks : RtInit(script, fallback)

NextRetry ==
    \/ CallExecuteWithRetry
    \/ StartAttempt
    \/ AttemptSucceeds
    \/ AttemptFails
    \/ \E jitter \in 0..MaxJitter : SleepElapses(jitter)
    \/ ReturnFallback
    \/ ThrowLastError

SpecRetry == InitRetry /\ [][NextRetry]_vars

----------------------------------------------------------------------------
(* Properties of executeWithRetry (specification SpecRetry) *)

RtSettled == rt_pc \in {"returned", "thrown"}

RetryableFailure(o) == o # Success /\ isRetryableError(o)
TerminalFailure(o) == o # Success /\ ~isRetryableError(o)

\* the operation fails with retryable errors on its first k invocations and
\* succeeds on the next
FailsThenSucceeds(k) ==
    /\ \A i \in 1..k : RetryableFailure(rt_script[i])
    /\ rt_script[k + 1] = Success

\* C7: if the first k attempts (k = 1 or 2) fail with retryable errors and
\* attempt k+1 succeeds, the operation is attempted exactly k+1 times and the
\* call returns the result of that attempt, never the fallback value.
C7_RetryThenSuccess ==
    RtSettled =>
        \A k \in 1..2 :
            FailsThenSucceeds(k) =>
                /\ rt_started = k + 1
                /\ rt_outcome = [kind |-> "result", attempt |-> k + 1,
                                 error |-> NoError]

\* two retryable failures then a success: settled after exactly 3 attempts
C7_Witness ==
    /\ RtSettled
    /\ FailsThenSucceeds(2)
    /\ rt_fallback # "undefined"
    /\ rt_started = 3
    /\ rt_outcome.kind = "result"

\* invocation n of the operation has been made and has settled
AttemptSettled(n) ==
    /\ n <= rt_started
    /\ n = rt_started => rt_pc # "awaiting"

\* C8: when an attempt fails with a non-retryable error no further attempt is
\* made and no backoff delay is waited; an operation whose first failure is
\* non-retryable is attempted exactly once.
C8_FailFast ==
    \A n \in 1..MaxRetries :
        (AttemptSettled(n) /\ TerminalFailure(rt_script[n])) =>
            /\ rt_started = n
            /\ Len(rt_sleeps) = n - 1
            /\ rt_pc \in {"exhausted", "returned", "thrown"}

\* a call whose first attempt failed with a non-retryable error has settled
C8_Witness ==
    /\ RtSettled
    /\ TerminalFailure(rt_script[1])
    /\ rt_started = 1
    /\ rt_sleeps = <<>>

AllAttemptsRetryable == \A i \in 1..MaxRetries : RetryableFailure(rt_script[i])

\* C9: when all attempts fail with retryable errors, the call returns the
\* fallback value if one was supplied and otherwise throws the error of the
\* last attempt.
C9_Exhaustion ==
    (RtSettled /\ AllAttemptsRetryable) =>
        IF rt_fallback # "undefined"
        THEN rt_outcome = [kind |-> "fallback", attempt |-> 0, error |-> NoError]
        ELSE rt_outcome = [kind |-> "thrown", attempt |-> 0,
                           error |-> rt_script[MaxRetries]]

\* three retryable failures with different errors, no fallback: the last is thrown
C9_Witness ==
    /\ RtSettled
    /\ AllAttemptsRetryable
    /\ rt_fallback = "undefined"
    /\ rt_script[1] # rt_script[MaxRetries]
    /\ rt_script[2] # rt_script[MaxRetries]
    /\ rt_outcome.kind = "thrown"
    /\ rt_outcome.error = rt_script[MaxRetries]

\* C10: a call attempts the operation at most 3 times, one attempt at a time:
\* attempt n+1 starts only after attempt n has failed with a retryable error and
\* the backoff delay has elapsed, and no delay is waited after the final attempt.
C10_BoundedSequentialAttempts ==
    /\ rt_started <= 3
    /\ rt_inflight <= 1
    /\ \A n \in 1..(rt_started - 1) :
          /\ RetryableFailure(rt_script[n])
          /\ Len(rt_sleeps) >= n
    /\ Len(rt_sleeps) <= rt_started
    /\ rt_pc \in {"awaiting", "sleeping", "exhausted", "returned", "thrown"}
          => Len(rt_sleeps) = rt_started - 1

\* a call that made all three attempts and waited exactly two delays
C10_Witness ==
    /\ RtSettled
    /\ rt_started = 3
    /\ Len(rt_sleeps) = 2
    /\ AllAttemptsRetryable

----------------------------------------------------------------------------
(* Specification of one generateConversationalResponse call *)

\* longest raw text, in tokens
MaxRawLen == 4

RawContents == SeqsUpTo(Tokens, MaxRawLen)

InitParse == CoreIdle /\ SsIdle /\ NzIdle /\ CmIdle /\ CfIdle /\ CcIdle /\ ExtIdle /\ \E content \in RawContents : PrInit(content)

NextParse ==
    \/ GeminiGenerateConversationalResponse
    \/ OpenAIGenerateConversationalResponse

SpecParse == InitParse /\ [][NextParse]_vars

----------------------------------------------------------------------------
(* Properties of generateConversationalResponse (specification SpecParse) *)

\* the raw text is a JSON object cut off before its closing brace: some
\* continuation of it is a valid object and it holds no "}" after which
\* the object would be closed
OpenBraces(s) ==
    Cardinality({j \in DOMAIN s : s[j] = "{"})
        - Cardinality({j \in DOMAIN s : s[j] = "}"})
RECURSIVE Closed(_, _)
Closed(s, n) == IF n = 0 THEN s ELSE Closed(Append(s, "}"), n - 1)
\* the text without a cut-off last member
Uncut(s) ==
    IF s # <<>> /\ s[Len(s)] = "nextPhase_cut"
    THEN SubSeq(s, 1, Len(s) - 1) \o <<"nextPhase">>
    ELSE s
CutOffObject(s) ==
    /\ s # <<>>
    /\ s[1] = "{"
    /\ OpenBraces(s) >= 1
    /\ \A i \in 1..(Len(s) - 1) : s[i] # "nextPhase_cut"
    /\ s[Len(s)] \in {"message", "nextPhase", "nextPhase_cut", "intent",
                      "careerSuggestions", "}"}
    /\ IsValidJson(Closed(Uncut(s), OpenBraces(s)))

\* a structurally valid response: a message and a phase
StructurallyValid(response) ==
    /\ response.message # "undefined"
    /\ response.nextPhase # "none"

\* C11: given a raw reply that is a JSON object cut off before its closing
\* brace, generateConversationalResponse does not throw: it returns a response
\* whose phase is the default phase enhanced_exploration.
C11_TruncatedReplyRepaired ==
    (CutOffObject(pr_content) /\ pr_out.kind # "pending")
        => /\ pr_out.kind = "returned"
           /\ pr_out.response.nextPhase = "enhanced_exploration"

----------------------------------------------------------------------------
(* Specification of SessionService.saveResponse *)

\* most saveResponse calls made on the session
MaxResponses == 3

InitScore ==
    /\ CoreIdle /\ PrIdle /\ NzIdle /\ CmIdle /\ CfIdle /\ CcIdle /\ ExtIdle
    /\ \E inputs \in SeqsUpTo(SaveInputs, MaxResponses) : SsInit(inputs)

NextScore ==
    \/ createSession
    \/ \E i \in 1..MaxResponses : saveResponse(i)

SpecScore == InitScore /\ [][NextScore]_vars

----------------------------------------------------------------------------
(* Properties of saveResponse (specification SpecScore) *)

\* this step is a saveResponse call that updated the scores
SaveStep == ss_ret'.ok /\ ss_done' # ss_done

\* the increment ((v - 1) / 4) * w[dim] of the call of this step, in quarters
ExpectedIncrement(d) ==
    LET input == ss_inputs[ss_ret'.index]
    IN IF input.riasecWeights[LetterOf(d)] > 0
       THEN (input.responseValue - 1) * input.riasecWeights[LetterOf(d)]
       ELSE 0

\* C12: for a response value v in 1..5 and a weight map w, saveResponse
\* increases every dimension with w[dim] > 0 by exactly ((v - 1) / 4) * w[dim]
\* and leaves every other dimension of the stored vector unchanged.
C12_WeightedIncrement ==
    [][SaveStep => \A d \in Dims : ss_scores'[d] = ss_scores[d] + ExpectedIncrement(d)]_vars

\* v = 5 with weight I:3 (and R:1) has added 3.0 to investigative, 1.0 to
\* realistic and nothing to the other dimensions
C12_Witness ==
    /\ ss_ret.ok
    /\ ss_done = {ss_ret.index}
    /\ ss_inputs[ss_ret.index].responseValue = 5
    /\ ss_inputs[ss_ret.index].riasecWeights.I = 3
    /\ ss_scores["investigative"] = 12
    /\ ss_scores["realistic"] = 4
    /\ ss_scores["artistic"] = 0

\* the vector obtained by applying the first n inputs in the order given
RECURSIVE AppliedInOrder(_, _)
AppliedInOrder(inputs, n) ==
    IF n = 0 THEN [d \in Dims |-> 0]
    ELSE updateRiasecScores(AppliedInOrder(inputs, n - 1),
                            inputs[n].responseValue, inputs[n].riasecWeights)

AllSaved == ss_inputs # <<>> /\ ss_done = DOMAIN ss_inputs

\* C13: applying the same set of saveResponse updates one after another in
\* any order yields the same final score vector.
C13_OrderIndependent ==
    AllSaved => ss_scores = AppliedInOrder(ss_inputs, Len(ss_inputs))

\* three updates that overlap on a dimension were applied last-first
C13_Witness ==
    /\ AllSaved
    /\ Len(ss_inputs) = MaxResponses
    /\ ss_ret.index = 1
    /\ ss_inputs[1].riasecWeights # ss_inputs[2].riasecWeights
    /\ ss_inputs[1].riasecWeights.R > 0 /\ ss_inputs[2].riasecWeights.R > 0
    /\ ss_inputs[1].responseValue > 1 /\ ss_inputs[2].responseValue > 1

----------------------------------------------------------------------------
(* Specification of one RiasecService.normalizeScores call *)

\* largest raw score handed to normalizeScores, in points
MaxRawScore == 21

\* raw scores, in quarters: -1, 0, 0.75, the assumed ceiling and the largest
RawScoreInputs == {-4, 0, 3, 4 * maxPossibleScore, 4 * MaxRawScore}

InitNorm ==
    /\ CoreIdle /\ PrIdle /\ SsIdle /\ CmIdle /\ CfIdle /\ CcIdle /\ ExtIdle
    /\ \E scores \in [Dims -> RawScoreInputs] : NzInit(scores)

NextNorm == normalizeScores

SpecNorm == InitNorm /\ [][NextNorm]_vars

\* C14: for any raw score vector, negative values and values above the
\* ceiling of 20 included, every dimension of normalizeScores' output is
\* within [0, 100].
C14_NormalizedInRange ==
    nz_out.called => \A d \in Dims : nz_out.scores[d] >= 0 /\ nz_out.scores[d] <= 100

----------------------------------------------------------------------------
(* Specification of one getCareerRecommendations call *)

\* most rows in the careers table
MaxCatalog == 3

\* user scores, in quarters: 0, 0.5 and 1 (0-1 values), 3 (a raw accumulator
\* of session_riasec_scores) and 65 (a 0-100 score)
UserScoreInputs == {0, 2, 4, 12, 260}
UserVectors ==
    {[d \in Dims |-> IF d = "realistic" THEN a ELSE IF d = "social" THEN b ELSE 0] :
        a \in UserScoreInputs, b \in UserScoreInputs}

CareerScores(r, s) ==
    [d \in Dims |-> IF d = "realistic" THEN r ELSE IF d = "social" THEN s ELSE 0]
\* rows of the careers table; the first and the third have the same scores
CareerRows ==
    {[scores |-> CareerScores(90, 20), duration_years |-> 3,
      primary_riasec_type |-> "realistic", secondary_riasec_type |-> "social"],
     [scores |-> CareerScores(10, 80), duration_years |-> 5,
      primary_riasec_type |-> "social", secondary_riasec_type |-> "realistic"],
     [scores |-> CareerScores(90, 20), duration_years |-> 5,
      primary_riasec_type |-> "investigative", secondary_riasec_type |-> "null"]}

LimitInputs == {1, 2, 10}
DurationInputs == {-1, 0, 3, 5}
TypeListInputs ==
    {[present |-> FALSE, list |-> {}], [present |-> TRUE, list |-> {}],
     [present |-> TRUE, list |-> {"realistic"}],
     [present |-> TRUE, list |-> {"realistic", "social"}]}

InitMatch ==
    /\ CoreIdle /\ PrIdle /\ SsIdle /\ NzIdle /\ CfIdle /\ CcIdle /\ ExtIdle
    /\ \E userScores \in UserVectors, rows \in SeqsUpTo(CareerRows, MaxCatalog) :
          CmInit(userScores, rows)

NextMatch ==
    \E limit \in LimitInputs, duration_max \in DurationInputs,
       riasec_types \in TypeListInputs :
          getCareerRecommendations(limit, duration_max, riasec_types)

SpecMatch == InitMatch /\ [][NextMatch]_vars

----------------------------------------------------------------------------
(* Properties of getCareerRecommendations (specification SpecMatch) *)

\* C15: for a fixed user vector and catalog entry the correlation is the same
\* on every evaluation, and the compatibility percentage is within [0, 100]
\* for every user vector passed to the matcher (0-1 values, raw accumulators,
\* 0-100 scores) and every catalog vector with scores in 0..100.
C15_CompatibilityInRange ==
    \A k \in DOMAIN cm_out :
        /\ cm_out[k].compatibility_score
              = CompatibilityScore(cm_userScores, cm_careers[cm_out[k].index].scores)
        /\ cm_out[k].compatibility_score >= 0
        /\ cm_out[k].compatibility_score <= 100

\* the percentage the row at position i gets
ScoreOfRow(i) == CompatibilityScore(cm_userScores, cm_careers[i].scores)

\* C16: the entries are returned in descending order of compatibility
\* percentage, entries of equal percentage in catalog order, the result is the
\* first limit entries of that ranking, and the match flags play no part.
C16_RankedDescendingStable ==
    cm_call.called =>
        /\ Len(cm_out) = Min(cm_call.limit, Cardinality(cm_scored))
        /\ \A k \in DOMAIN cm_out : cm_out[k].index \in cm_scored
        /\ \A k \in 1..(Len(cm_out) - 1) :
              \/ cm_out[k].compatibility_score > cm_out[k + 1].compatibility_score
              \/ /\ cm_out[k].compatibility_score = cm_out[k + 1].compatibility_score
                 /\ cm_out[k].index < cm_out[k + 1].index
        /\ \A i \in cm_scored :
              (\A k \in DOMAIN cm_out : cm_out[k].index # i)
                 => \A k \in DOMAIN cm_out :
                       \/ cm_out[k].compatibility_score > ScoreOfRow(i)
                       \/ /\ cm_out[k].compatibility_score = ScoreOfRow(i)
                          /\ cm_out[k].index < i

\* three rows were ranked and cut to two: the row with the highest percentage
\* first, then the earlier of two rows of equal percentage, which has no
\* primary match while the later one has
C16_Witness ==
    /\ cm_call.called
    /\ cm_call.limit = 2
    /\ Cardinality(cm_scored) = 3
    /\ Len(cm_out) = 2
    /\ cm_out[1].index = 2
    /\ cm_out[2].index = 1
    /\ ~cm_out[2].primary_match
    /\ ScoreOfRow(1) = ScoreOfRow(3)
    /\ ScoreOfRow(2) > ScoreOfRow(1)
    /\ cm_careers[3].primary_riasec_type \in getTopRiasecTypes(cm_userScores, 2)

\* C17: for every maximum-duration filter and every allow-list of primary
\* types supplied, every entry scored or returned satisfies the filters,
\* including for a maximum duration of 0.
C17_FiltersRespected ==
    cm_call.called =>
        \A i \in cm_scored \cup {cm_out[k].index : k \in DOMAIN cm_out} :
            /\ cm_call.duration_max # -1
                  => cm_careers[i].duration_years <= cm_call.duration_max
            /\ (cm_call.riasec_types.present /\ cm_call.riasec_types.list # {})
                  => cm_careers[i].primary_riasec_type \in cm_call.riasec_types.list

----------------------------------------------------------------------------
(* Specification of a call with or without credentials *)

Environments ==
    [AI_PROVIDER : {"unset", "gemini", "openai"}, GEMINI_API_KEY : BOOLEAN,
     OPENAI_API_KEY : BOOLEAN]

InitConfig ==
    /\ CoreIdle /\ PrIdle /\ SsIdle /\ NzIdle /\ CmIdle /\ CcIdle /\ ExtIdle
    /\ \E env \in Environments : CfInit(env)

NextConfig ==
    \/ CfLoadCareers
    \/ getDefaultService
    \/ \E reply \in AnswerReplies : CleanAIServiceProcessMessage("ok", reply)
    \/ \E outcome \in ProviderOutcomes \ {"ok"} :
          CleanAIServiceProcessMessage(outcome, UnusedReply)

SpecConfig == InitConfig /\ [][NextConfig]_vars

\* the credential the call of cf_out needs is not configured
CredentialMissing ==
    \/ cf_out.op = "processMessage" /\ ~cf_env.OPENAI_API_KEY
    \/ /\ cf_out.op = "getDefaultService"
       /\ IF SelectedProvider = "gemini" THEN ~cf_env.GEMINI_API_KEY
          ELSE ~cf_env.OPENAI_API_KEY

\* the errors the operation reports for a provider failure or a parse failure
ProviderFailureErrors(op) ==
    IF op = "processMessage"
    THEN {ProcessMessageCatch(outcome) : outcome \in ProviderOutcomes \ {"ok"}}
    ELSE {}

\* C18: when no credential is configured for the selected provider, the call
\* fails at once without any request to the provider, and the error reaching
\* the caller differs from the error reported for a provider or parse failure.
C18_ConfigErrorDistinct ==
    CredentialMissing =>
        /\ ~cf_out.ok
        /\ cf_attempts = 0
        /\ cf_out.error \notin ProviderFailureErrors(cf_out.op)

----------------------------------------------------------------------------
(* Specification of overlapping VocationalTestService calls *)

\* the session before the calls: after the greeting, or in reality_check
\* (entered by a declared phase) one turn short of the forced completion
SessionRows ==
    {[phase |-> "exploration", history |-> InitialHistory(1), scores |-> 0,
      recs |-> 0, rcStart |-> -1],
     [phase |-> "reality_check", history |-> InitialHistory(RealityCheckLimit - 1),
      scores |-> 0, recs |-> 0, rcStart |-> -1]}

CcOperations == {"processMessage", "transitionToPhase", "completeRealityCheck"}

InitRace ==
    /\ CoreIdle /\ PrIdle /\ SsIdle /\ NzIdle /\ CmIdle /\ CfIdle /\ ExtIdle
    /\ \E row \in SessionRows : CcInit(row)

NextRace ==
    \E call \in Calls :
        \/ \E op \in CcOperations : CcGetSession(call, op)
        \/ \E aiResponse \in CcResponses, completionResponse \in CcResponses :
              CcProcessMessageWrite(call, aiResponse, completionResponse)
        \/ CcProcessMessageFail(call)
        \/ \E targetPhase \in {"career_matching", "reality_check"} :
              CcTransitionWritePhase(call, targetPhase)
        \/ CcTransitionWriteQuestion(call)
        \/ \E aiResponse \in CcResponses : CcCompleteRealityCheck(call, aiResponse)

SpecRace == InitRace /\ [][NextRace]_vars

----------------------------------------------------------------------------
(* Properties of overlapping calls (specification SpecRace) *)

CcSettled == \A call \in Calls : cc_pc[call] \in {"done", "failed"}
CcWriters == {call \in Calls : cc_pc[call] = "done"}

\* C19: when two turns on the same session are processed concurrently, the
\* final persisted state is the state written by one of the two turns in its
\* entirety, never a mix of fields written by different turns.
C19_WholeTurnWins ==
    (/\ CcSettled
     /\ \A call \in Calls : cc_op[call] = "processMessage"
     /\ CcWriters # {})
        => \E call \in CcWriters : cc_row = cc_result[call]

IsPrefix(s, t) == Len(s) <= Len(t) /\ SubSeq(t, 1, Len(s)) = s

\* C20: the persisted conversation history is append-only in every
\* interleaving of two turns: every write stores a sequence that has the
\* previously persisted history as a prefix.
C20_HistoryAppendOnly ==
    [][IsPrefix(cc_row.history, cc_row'.history)]_vars

----------------------------------------------------------------------------
(* Specification of the phase of a session over successive calls *)

InitPhase == CoreIdle /\ BaseIdle /\ QsIdle /\ ScIdle /\ TtIdle /\ AfIdle /\ ErIdle /\ TqIdle /\ SvIdle /\ PhInit

NextPhase ==
    \/ \E aiOk \in BOOLEAN : PhStartSession(aiOk)
    \/ \E declared \in DeclaredPhases, intent \in Intents, completionOk \in BOOLEAN :
         /\ intent = "completion_check" => declared = "none"
         /\ PhProcessMessage(declared, intent, TRUE, completionOk)
    \/ PhProcessMessage("none", "question", FALSE, TRUE)
    \/ \E targetPhase \in VsPhases, aiOk \in BOOLEAN :
         PhTransitionToPhase(targetPhase, aiOk)
    \/ \E aiOk \in BOOLEAN : PhCompleteRealityCheck(aiOk)

SpecPhase == InitPhase /\ [][NextPhase]_vars

----------------------------------------------------------------------------
(* Properties of the phase of a session (specification SpecPhase) *)

\* this step is a transitionToPhase call with target reality_check, which
\* returned normally, on a session already in reality_check
ReentryStep ==
    /\ ph_ret'.op = "transitionToPhase"
    /\ ph_ret'.target = "reality_check"
    /\ ph_ret'.ok
    /\ ph_row.phase = "reality_check"

\* this step is a startSession call that returned normally
CreationStep == ph_ret'.op = "startSession" /\ ph_ret'.ok

\* C21: transitionToPhase with target reality_check on a session already in
\* reality_check appends no second first question to the history and leaves
\* the recorded realityCheckStartMessageCount as it is; and the history of a
\* session holds exactly one greeting after creation, never more.
C21_ReentryIdempotent ==
    [][/\ ReentryStep => /\ ph_row'.history = ph_row.history
                         /\ ph_row'.rcStart = ph_row.rcStart
       /\ CreationStep => CountOf(ph_row'.history, "greeting") = 1
       /\ CountOf(ph_row'.history, "greeting") <= 1]_vars

----------------------------------------------------------------------------
(* Further properties of ConversationalSessionService (specification SpecConv) *)

\* this step is a processUserMessage call to which the provider replied
AnsweredStep == ts_turn'.op = "processUserMessage" /\ ts_turn'.ok

\* C22: the persisted phase is always one of the known phase values; when
\* the provider's reply declares a known phase, that phase is the session's
\* phase after the turn; a declared value outside the known set is never
\* persisted and the phase stays as it was.
C22_PhaseAlwaysKnown ==
    [][/\ ts_phase' \in TsPhaseCheck \cup {"none"}
       /\ (AnsweredStep /\ ts_turn'.declared \in TsPhaseCheck)
             => ts_phase' = ts_turn'.declared
       /\ (AnsweredStep /\ ts_turn'.declared \notin TsPhaseCheck \cup {"none"})
             => ts_phase' = ts_phase]_vars

----------------------------------------------------------------------------
(* ConversationalSessionService.processUserMessage on the provider's raw text *)

\* the ConversationResponse processUserMessage receives for a response of
\* generateConversationalResponse; the token model of a parsed payload carries
\* no scores and one catalog entry for a careerSuggestions member
ConversationResponseOf(response) ==
    [message |-> response.message,
     intent |-> response.intent,
     nextPhase |-> response.nextPhase,
     careerSuggestions |-> IF response.hasCareerSuggestions
                           THEN [present |-> TRUE, list |-> <<1>>]
                           ELSE [present |-> FALSE, list |-> <<>>],
     riasecAssessment |-> IF "riasecAssessment" \in DOMAIN response
                          THEN response.riasecAssessment
                          ELSE [present |-> FALSE, scores |-> NoScores,
                                confidence |-> 0]]

\* processUserMessage when the provider is answering with the text pr_content
\* and parsed is what generateConversationalResponse makes of it
ProcessUserMessageOnText(parsed, finalRiasecScores) ==
    IF parsed.kind = "returned"
    THEN processUserMessage(ConversationResponseOf(parsed.response), TRUE,
                            finalRiasecScores)
    ELSE processUserMessage(UnusedReply, FALSE, NoScores)

----------------------------------------------------------------------------
(* Specification of conversational turns on a raw provider text *)

\* the reply to the greeting request
GreetingReply ==
    [message |-> "greeting", intent |-> "question", nextPhase |-> "greeting",
     careerSuggestions |-> [present |-> FALSE, list |-> <<>>],
     riasecAssessment |-> [present |-> FALSE, scores |-> NoScores,
                           confidence |-> 0]]

InitTurn ==
    /\ CoreIdle /\ SsIdle /\ NzIdle /\ CmIdle /\ CfIdle /\ CcIdle /\ ExtIdle
    /\ \E content \in RawContents : PrInit(content)

NextTurn ==
    \/ createConversationalSession(GreetingReply, TRUE)
    \/ \E finalRiasecScores \in AssessmentInputs :
         ProcessUserMessageOnText(GeminiParseContent(pr_content), finalRiasecScores)
    \/ ProcessUserMessageOnText(OpenAIParseContent(pr_content), NoScores)

SpecTurn == InitTurn /\ [][NextTurn]_vars

----------------------------------------------------------------------------
(* Properties of turns on a raw provider text (specification SpecTurn) *)

\* no structured payload can be extracted or parsed from the text, after the
\* repair of a truncated match
NoPayload(content) ==
    \/ RegexMatch(content) = <<>>
    \/ ~IsValidJson(TextToParse(RegexMatch(content)))

\* C24: when no structured payload can be extracted or parsed from the
\* provider's reply, the turn fails with an error for the caller, the
\* session's phase, score vector and recommendations are unchanged, and no
\* substitute content is stored in the history.
C24_UnparseableTurnFails ==
    [][(ts_turn'.op = "processUserMessage" /\ NoPayload(pr_content))
          => /\ ~ts_ret'.ok
             /\ UNCHANGED <<ts_phase, ts_scores, ts_results, ts_history>>]_vars

----------------------------------------------------------------------------
(* Specification of one session of the structured test *)

InitTest == CoreIdle /\ BaseIdle /\ QsIdle /\ ScIdle /\ TtIdle /\ AfIdle /\ ErIdle /\ PhIdle /\ SvIdle /\ TqInit

SaveOutcomes == {"ok", "failed_before", "failed_after"}

NextTest ==
    \/ TqCreateSession
    \/ \E question_category \in Dims, saved \in SaveOutcomes :
         submitResponse(question_category, saved)
    \/ completeSession

SpecTest == InitTest /\ [][NextTest]_vars

----------------------------------------------------------------------------
(* Properties of the structured test (specification SpecTest) *)

\* this step marks the session completed
MarkedCompletedStep == tq_ret'.completed /\ tq_ret'.status = 200

\* C25: the session is marked completed, by submitResponse or by
\* completeSession, only when at least 12 responses are recorded and every
\* category has one, or when at least 20 are recorded; and a submitResponse
\* that leaves 20 recorded responses or more completes the session and
\* serves no further question.
C25_CompletionCriteria ==
    [][/\ (tq_status' = "completed" /\ (tq_status # "completed" \/ MarkedCompletedStep))
             => \/ /\ ResponseCount(tq_dist') >= 12
                   /\ \A d \in Dims : tq_dist'[d] >= 1
                \/ ResponseCount(tq_dist') >= 20
       /\ (tq_ret'.op = "submitResponse" /\ tq_ret'.status = 200
             /\ ResponseCount(tq_dist') >= 20)
             => /\ tq_status' = "completed"
                /\ tq_ret'.completed
                /\ ~tq_ret'.served]_vars

\* a submitResponse completed the session at 20 responses although one
\* category has none
C25_Witness ==
    /\ tq_ret.op = "submitResponse"
    /\ tq_ret.completed
    /\ tq_status = "completed"
    /\ ResponseCount(tq_dist) = 20
    /\ tq_dist["conventional"] = 0

----------------------------------------------------------------------------
(* Further properties of saveResponse (specification SpecScore) *)

\* C26: saveResponse is atomic: after a call either the response row is
\* stored and the scores are updated, or neither; the number of stored
\* responses is always the number of score updates made.
C26_SaveResponseAtomic ==
    ss_responses = Cardinality(ss_done)

----------------------------------------------------------------------------
(* Further properties of the phase of a session (specification SpecPhase) *)

\* C27: the reality-check phase does not run unboundedly: once the session
\* has entered reality_check, the phase has been complete by the time six
\* user turns (the 12 messages of the limit) have been persisted, whatever
\* phases the provider declares and whatever transitionToPhase calls occur.
C27_RealityCheckBounded ==
    (ph_entry >= 0 /\ ph_turns >= RealityCheckLimit \div 2) => ph_reached

\* this step is a processMessage call that persisted a turn whose reply
\* carried no nextPhase field
PhaseOmittedStep ==
    /\ ph_ret'.op = "processMessage"
    /\ ph_ret'.ok
    /\ ph_ret'.declared = "none"

\* C28: when the provider's reply omits the phase field, a session in a
\* late-stage phase stays in that phase if the reply's intent is
\* completion_check; with any other intent the phase becomes the earliest
\* exploration phase (enhanced_exploration, stored as exploration).
C28_MissingPhaseInferred ==
    [][/\ (PhaseOmittedStep /\ ph_ret'.intent = "completion_check"
             /\ ph_row.phase \in {"reality_check", "complete"})
             => ph_row'.phase = ph_row.phase
       /\ (PhaseOmittedStep /\ ph_ret'.intent # "completion_check")
             => ph_row'.phase = "exploration"]_vars

\* C29: the forced-completion count starts at reality-check entry on every
\* path into reality_check: processMessage never forces complete while fewer
\* than 12 messages, this turn's two included, have been appended to the
\* history since the session entered reality_check.
C29_CountStartsAtEntry ==
    [][(ph_ret'.op = "processMessage" /\ ph_ret'.forced /\ ph_ret'.ok)
          => Len(ph_row'.history) - ph_entry >= 12]_vars

----------------------------------------------------------------------------
(* Further properties of CleanAIService (specification SpecConfig) *)

\* C30: every proposed career reference is checked against the careers store
\* as it stands when the turn runs: a proposal whose id is in the store is
\* never dropped, also when the turn is processed before the catalog load
\* started by the constructor has finished.
C30_CatalogAsOfTurn ==
    (cf_out.op = "processMessage" /\ cf_out.ok)
        => \A id \in Range(cf_out.proposed) \cap Catalog :
               id \in Range(cf_out.result.recommendations.list)

----------------------------------------------------------------------------
(* Specification of the score vector and recommendations of a session *)

InitVector == CoreIdle /\ BaseIdle /\ QsIdle /\ ScIdle /\ TtIdle /\ AfIdle /\ ErIdle /\ PhIdle /\ TqIdle /\ SvInit

NextVector ==
    \/ LoadCareers
    \/ SvStartSession
    \/ \E reply \in AnswerReplies :
         SvProcessMessage(reply, TRUE, FALSE, UnusedReply, TRUE)
    \/ \E reply \in AnswerReplies, completionReply \in ForcedReplies :
         SvProcessMessage(reply, TRUE, TRUE, completionReply, TRUE)
    \/ \E completionOk \in BOOLEAN :
         SvProcessMessage(UnusedReply, completionOk, TRUE, UnusedReply, FALSE)
    \/ \E reply \in FinalReplies : SvCompleteRealityCheck(reply, TRUE)
    \/ SvCompleteRealityCheck(UnusedReply, FALSE)

SpecVector == InitVector /\ [][NextVector]_vars

----------------------------------------------------------------------------
(* Properties of the stored score vector (specification SpecVector) *)

\* this step is a call that stored an aiResponse carrying riasecScores
ScoresAssertedStep ==
    /\ sv_ret'.op \in {"processMessage", "completeRealityCheck"}
    /\ sv_ret'.ok
    /\ sv_ret'.riasecScores.present

\* the vectors a provider's assertion is stored as: one value per dimension,
\* 0 for a dimension the assertion leaves out
AssertedVectors ==
    {[d \in Dims |-> a.scores[LetterOf(d)]] : a \in {x \in ScoreInputs : x.present}}

----------------------------------------------------------------------------
(* Specification of isRetryableError calls *)

InitClassify == CoreIdle /\ BaseIdle /\ QsIdle /\ ScIdle /\ TtIdle /\ AfIdle /\ PhIdle /\ TqIdle /\ SvIdle /\ ErInit

NextClassify == \E error \in ErrorObjects : CallIsRetryableError(error)

SpecClassify == InitClassify /\ [][NextClassify]_vars

----------------------------------------------------------------------------
(* Properties of isRetryableError (specification SpecClassify) *)

\* the failures the classification is stated over
IsRateLimitFailure(error) ==
    error.status = 429 \/ "Rate limit exceeded" \in error.message
IsOverloadFailure(error) ==
    error.status = 503 \/ "The model is overloaded" \in error.message
IsTimeoutFailure(error) ==
    \/ "Request timeout" \in error.message
    \/ "connect ETIMEDOUT" \in error.message
    \/ error.code = "ETIMEDOUT"
IsNetworkFailure(error) ==
    \/ "Network error" \in error.message
    \/ "read ECONNRESET" \in error.message
    \/ error.code = "ECONNRESET"
IsServerFailure(error) == error.status \in 500..599

\* C31: a failure is classified retryable exactly when it is a rate-limit,
\* an overload (503), a timeout, a transient network error (connection reset,
\* ETIMEDOUT / ECONNRESET codes included) or a server error of any status
\* 500..599; every other failure, a 4xx other than 429 included, is terminal.
C31_RetryableClassification ==
    er_out.done =>
        (er_out.shouldRetry <=>
            \/ IsRateLimitFailure(er_error)
            \/ IsOverloadFailure(er_error)
            \/ IsTimeoutFailure(er_error)
            \/ IsNetworkFailure(er_error)
            \/ IsServerFailure(er_error))
----------------------------------------------------------------------------
(* Specification of the calls of AIServiceFactory *)

\* AI_PROVIDER is cast to the provider type without a test, so it may name
\* neither provider
FactoryEnvironments ==
    [AI_PROVIDER : {"unset", "gemini", "openai", "other"},
     GEMINI_API_KEY : BOOLEAN, OPENAI_API_KEY : BOOLEAN]

InitFactory ==
    /\ CoreIdle /\ BaseIdle /\ QsIdle /\ ScIdle /\ PhIdle /\ TqIdle /\ SvIdle /\ ErIdle /\ TtIdle
    /\ af_env \in FactoryEnvironments
    /\ af_instances = {}
    /\ af_ret = AfNoCall

NextFactory ==
    \/ getBackupService
    \/ CallGetDefaultService
    \/ \E provider \in Providers \cup {"other"} : CallCreateService(provider)

SpecFactory == InitFactory /\ [][NextFactory]_vars

----------------------------------------------------------------------------
(* Properties of AIServiceFactory (specification SpecFactory) *)

\* the primary provider is the one AI_PROVIDER selects; the secondary is the other
PrimaryConfigured ==
    /\ DefaultProviderOf(af_env) \in Providers
    /\ ApiKeyOf(af_env, DefaultProviderOf(af_env))
SecondaryProvider == CHOOSE p \in Providers : p # DefaultProviderOf(af_env)

\* C32: the secondary provider is constructed and returned only when the
\* primary is unavailable: while the credential of the primary is configured,
\* no call constructs or returns the other provider.
C32_SecondaryOnlyWhenPrimaryUnavailable ==
    PrimaryConfigured =>
        /\ SecondaryProvider \notin af_instances
        /\ af_ret.provider # SecondaryProvider
----------------------------------------------------------------------------
(* Properties of the extraction of the payload (specification SpecParse) *)

\* s[i..j] opens with "{" and its braces close at j for the first time
BalancedAt(s, i, j) ==
    /\ s[i] = "{"
    /\ \A m \in i..j :
         LET open == Cardinality({k \in i..m : s[k] = "{"})
             close == Cardinality({k \in i..m : s[k] = "}"})
         IN IF m = j THEN open = close ELSE open > close

\* the positions where a balanced {...} substring of the text starts
BalancedStarts(s) == {i \in DOMAIN s : \E j \in i..Len(s) : BalancedAt(s, i, j)}

\* the balanced {...} substring that starts at the first "{" of the text,
\* <<>> when the first "{" is never closed
FirstBalanced(s) ==
    LET i == FirstIndexOf(s, "{")
    IN  IF i \in BalancedStarts(s)
        THEN SubSeq(s, i, CHOOSE x \in i..Len(s) : BalancedAt(s, i, x))
        ELSE <<>>

\* the call ended as a parse failure: OpenAI throws, Gemini gives its fallback
ParseFailure ==
    \/ pr_out.kind \in {"no_json", "parse_error"}
    \/ pr_out = PrReturned(getFallbackResponse)

\* C33: the payload extracted from a raw reply is its first balanced {...}
\* substring: for a reply that holds a complete object followed by prose
\* with another "}", or by a second object, it is the first object alone; a
\* reply that holds no balanced object is a parse failure.
C33_FirstBalancedObject ==
    pr_out.kind # "pending" =>
        /\ FirstBalanced(pr_content) # <<>>
              => RegexMatch(pr_content) = FirstBalanced(pr_content)
        /\ BalancedStarts(pr_content) = {} => ParseFailure

\* C38: the text the pattern extracts always ends with "}", so the repair of
\* a truncated text is applied to no raw reply; a reply without any "}" is
\* handled as "no JSON found" and is not repaired.
C38_RepairNeverApplies ==
    pr_out.kind # "pending" =>
        LET jsonMatch == RegexMatch(pr_content)
        IN  /\ jsonMatch # <<>> => /\ EndsWithBrace(jsonMatch)
                                   /\ TextToParse(jsonMatch) = jsonMatch
            /\ (\A i \in DOMAIN pr_content : pr_content[i] # "}")
                  => /\ jsonMatch = <<>>
                     /\ pr_out \in {PrThrown("no_json"),
                                    PrReturned(getFallbackResponse)}

\* a reply with text after its last "}" was extracted and parsed
C38_Witness ==
    /\ pr_out.kind = "returned"
    /\ pr_out.response # getFallbackResponse
    /\ pr_content[Len(pr_content)] # "}"
    /\ RegexMatch(pr_content) # <<>>
----------------------------------------------------------------------------
(* Specification of getTopTypes and getRiasecCode calls *)

\* highest score of a dimension
MaxTopScore == 2

InitTop ==
    /\ CoreIdle /\ BaseIdle /\ QsIdle /\ ScIdle /\ PhIdle /\ TqIdle /\ SvIdle /\ ErIdle /\ AfIdle
    /\ tt_scores \in [Dims -> 0..MaxTopScore]
    /\ tt_out = TtNoCall

NextTop ==
    \/ \E count \in 0..7 : getTopTypes(count)
    \/ getRiasecCode

SpecTop == InitTop /\ [][NextTop]_vars

----------------------------------------------------------------------------
(* Properties of getTopTypes and getRiasecCode (specification SpecTop) *)

\* the first k dimensions by descending score, dimensions of equal score in
\* the order realistic, investigative, artistic, social, enterprising,
\* conventional
RankedFirst(scores, k) ==
    [r \in 1..Min(k, 6) |-> CHOOSE d \in Dims : TypeRank(scores, d) = r - 1]

\* C34: getTopTypes(vector, k) is the k dimensions of highest score in
\* descending order of score, dimensions of equal score in the order
\* realistic, investigative, artistic, social, enterprising, conventional;
\* getRiasecCode is the letters of the first 3 of that ranking, in order.
C34_TopTypesRanked ==
    /\ tt_out.op = "getTopTypes"
          => tt_out.topTypes = RankedFirst(tt_scores, tt_out.count)
    /\ tt_out.op = "getRiasecCode"
          => tt_out.code = [r \in 1..3 |-> LetterOf(RankedFirst(tt_scores, 3)[r])]

\* the top 3 of a vector in which the third and fourth scores are equal
C34_Witness ==
    /\ tt_out.op = "getTopTypes"
    /\ tt_out.count = 3
    /\ tt_scores = [d \in Dims |-> IF d \in {"social", "conventional"} THEN 2
                                   ELSE IF d \in {"artistic", "enterprising"} THEN 1
                                   ELSE 0]
    /\ tt_out.topTypes = <<"social", "conventional", "artistic">>
----------------------------------------------------------------------------
(* Further properties of VocationalTestService (specification Spec) *)

\* C35: on every turn processed by processMessage the assistant message
\* returned to the caller is the content of the last message of the history
\* persisted for the turn, turns on which completion is forced included.
C35_ReturnedMessageIsLastOfHistory ==
    (vs_turn.op = "processMessage" /\ vs_turn.ok) =>
        /\ vs_history # <<>>
        /\ vs_history[Len(vs_history)].role = "assistant"
        /\ vs_history[Len(vs_history)].content = vs_ret.message
----------------------------------------------------------------------------
(* Properties of the stored recommendations (specification SpecVector) *)

\* C36: the recommendations stored for a session are not erased by a later
\* turn whose reply carries no valid recommendation (an empty careerSuggestions
\* list, or one whose entries are all filtered out): the stored list changes
\* only when a turn yields a non-empty validated list.
C36_RecommendationsNotErased ==
    [][(sv_row.exists /\ sv_row'.recs # sv_row.recs)
          => /\ sv_row'.recs # <<>>
             /\ Range(sv_row'.recs) \subseteq careers]_vars
----------------------------------------------------------------------------
(* Specification of overlapping saveResponse calls *)

\* the scores row the calls find: that of a new session, or one with points
StartScores == {[d \in Dims |-> 0], [d \in Dims |-> IF d = "realistic" THEN 6 ELSE 2]}

InitSaves ==
    /\ CoreIdle /\ BaseIdle /\ QsIdle /\ PhIdle /\ TqIdle /\ SvIdle /\ ErIdle /\ AfIdle /\ TtIdle
    /\ sc_start \in StartScores
    /\ sc_scores = sc_start
    /\ sc_responses = 0
    /\ sc_input = [call \in Calls |-> NoSaveInput]
    /\ sc_pc = [call \in Calls |-> "idle"]
    /\ sc_current = [call \in Calls |-> [d \in Dims |-> 0]]

NextSaves ==
    \/ \E call \in Calls, input \in SaveInputs : ScCreateResponse(call, input)
    \/ \E call \in Calls : ScGetRiasecScores(call)
    \/ \E call \in Calls : ScUpdateRiasecScores(call)

SpecSaves == InitSaves /\ [][NextSaves]_vars

----------------------------------------------------------------------------
(* Properties of overlapping saveResponse calls (specification SpecSaves) *)

\* the delta of a call on a dimension, in quarters
DeltaOf(call, d) ==
    NormalizedResponse(sc_input[call].responseValue)
        * sc_input[call].riasecWeights[LetterOf(d)]

RECURSIVE SumOfDeltas(_, _)
SumOfDeltas(calls, d) ==
    IF calls = {} THEN 0
    ELSE LET call == CHOOSE c \in calls : TRUE
         IN  DeltaOf(call, d) + SumOfDeltas(calls \ {call}, d)

\* C37: when saveResponse calls on the same session run concurrently, the
\* final score vector is the initial vector plus the deltas of all the
\* responses on every dimension: no update is lost, also when the responses
\* weight the same dimension.
C37_NoLostUpdate ==
    (\A call \in Calls : sc_pc[call] = "done") =>
        \A d \in Dims : sc_scores[d] = sc_start[d] + SumOfDeltas(Calls, d)
----------------------------------------------------------------------------
(* Further properties of ConversationalSessionService (specification SpecConv) *)

\* C39: after any sequence of createConversationalSession and
\* processUserMessage calls, the status of a session is completed if and only
\* if its persisted current_phase is complete.
C39_CompletedIffPhaseComplete ==
    ts_status # "none" => (ts_status = "completed" <=> ts_phase = "complete")
----------------------------------------------------------------------------
(* Specification of a structured test whose user answers the served questions *)

InitQuestions ==
    /\ CoreIdle /\ BaseIdle /\ PhIdle /\ TqIdle /\ SvIdle /\ ErIdle /\ AfIdle /\ TtIdle /\ ScIdle
    /\ QsInit

NextQuestions_ ==
    \/ QsCreateSession
    \/ \E question \in QuestionBank \cup {NoQuestion} : QsGetNextQuestion(question)
    \/ \E nextQuestion \in QuestionBank \cup {NoQuestion} :
          QsSubmitResponse(nextQuestion)

SpecQuestions == InitQuestions /\ [][NextQuestions_]_vars

----------------------------------------------------------------------------
(* Properties of the served questions (specification SpecQuestions) *)

\* C40: whenever the test state says the session should continue,
\* getNextQuestion returns a question not yet answered in the session, and a
\* session whose user answers every served question is marked completed
\* after at most 20 responses.
C40_ServedQuestionsTerminate ==
    /\ (qs_ret.op \in {"getNextQuestion", "submitResponse"} /\ qs_ret.should_continue)
          => qs_ret.question \in QuestionBank \ qs_asked
    /\ Cardinality(qs_asked) <= MaximumQuestions
    /\ (qs_ret.op = "submitResponse" /\ qs_status # "completed")
          => /\ Cardinality(qs_asked) < MaximumQuestions
             /\ qs_served \in QuestionBank \ qs_asked

\* the answer to a served question completed the session
C40_Witness ==
    /\ qs_status = "completed"
    /\ qs_ret.op = "submitResponse"
    /\ Cardinality(qs_asked) >= MinimumQuestions
    /\ qs_served = NoQuestion

====
